---------------------------- MODULE Spec2Model ----------------------------
(***************************************************************************)
(* A model of the gRPC discovery engine of grpc-scan.                      *)
(*                                                                         *)
(* The programs of the repository are modelled, selected by `prog`:        *)
(*   "scanner"  Scanner.Run and its helpers (the single-target scan),      *)
(*   "direct"   handleDirectTesting (-service / -method),                  *)
(*   "call"     handleDirectCall (-call),                                  *)
(*   "legacy"   the file-driven scanner (checkStandardServices,            *)
(*              checkHealthService, discoverServicesViaReflection,         *)
(*              bruteForceServices),                                       *)
(*   "fuzz"     its version fuzzing (fuzzServiceVersions),                 *)
(*   "detect"   checkGRPCService of the multi-target detector.             *)
(* The server is an input: it answers every path deterministically, and   *)
(* the scans are checked against every server of a bounded family.        *)
(***************************************************************************)
EXTENDS Integers, Sequences, FiniteSets, TLC

VARIABLES
    prog,               \* which program runs
    srv,                \* the server under scan (how it answers each path)
    cfg,                \* the inputs of the run (wordlist, threads, files, targets)
    pc,                 \* position of the main goroutine
    idx,                \* main goroutine: loop index (standard service / dispatch)
    mi,                 \* main goroutine: method index inside the current loop
    loc,                \* main goroutine: locals of the loop body; detector: its counters
    services,           \* result.AvailableServices
    methods,            \* result.MethodsFound (a map: DOMAIN methods are its keys)
    reflectionEnabled,  \* result.ReflectionEnabled
    scanMode,           \* result.ScanMode
    isGRPC,             \* detectServiceType's verdict (a set: empty before the probe)
    results,            \* detector: the DetectResults sent to resultsChan; fuzz: the
                        \* fuzzed list; call: the line printed
    wk,                 \* the worker goroutines, by candidate index
    sem,                \* number of slots taken in the semaphore channel
    mutex,              \* set of holders of the result mutex (empty: unlocked)
    cands,              \* the candidates handed to the workers; fuzz: the list fuzzed
    last,               \* the RPC answered in the step just taken, or NoProbe
    seen,               \* history: every RPC answered so far
    reflected,          \* history: what the reflection stream delivered
    ctx                 \* the context of the run: "live" until its deadline passes

inputVars  == <<prog, srv, cfg>>
mainVars   == <<pc, idx, mi, loc>>
resultVars == <<services, methods, reflectionEnabled, scanMode, isGRPC, results>>
poolVars   == <<wk, sem, mutex, cands>>
histVars   == <<last, seen, reflected>>

vars == <<inputVars, mainVars, resultVars, poolVars, histVars, ctx>>

result == <<services, methods, reflectionEnabled>>

-----------------------------------------------------------------------------
(* Strings: the operations of package strings the scanners use.            *)

Upper == <<"A", "B", "C", "D", "E", "F", "G", "H", "I", "J", "K", "L", "M",
           "N", "O", "P", "Q", "R", "S", "T", "U", "V", "W", "X", "Y", "Z">>
Lower == <<"a", "b", "c", "d", "e", "f", "g", "h", "i", "j", "k", "l", "m",
           "n", "o", "p", "q", "r", "s", "t", "u", "v", "w", "x", "y", "z">>

UpperChars == {Upper[k] : k \in 1..26}

LowerChar == [c \in UpperChars |-> Lower[CHOOSE k \in 1..26 : Upper[k] = c]]

\* s[lo..] with the characters at the positions `ups` (its upper-case
\* letters) replaced by their lower-case letters
RECURSIVE LowerFrom(_, _, _)
LowerFrom(s, ups, lo) ==
    IF lo > Len(s) THEN SubSeq(s, lo, Len(s))
    ELSE (IF lo \in ups THEN LowerChar[SubSeq(s, lo, lo)] ELSE SubSeq(s, lo, lo))
             \o LowerFrom(s, ups, lo + 1)

\* strings.ToLower, computed character by character
LowerOf(s) ==
    LowerFrom(s, {i \in 1..Len(s) : SubSeq(s, i, i) \in UpperChars}, 1)

\* strings.Contains, computed position by position
Occurs(s, t) ==
    \E i \in 0..(Len(s) - Len(t)) : SubSeq(s, i + 1, i + Len(t)) = t

HasSuffix(s, t) ==
    Len(s) >= Len(t) /\ SubSeq(s, Len(s) - Len(t) + 1, Len(s)) = t

Take(s, n) == SubSeq(s, 1, IF n < Len(s) THEN n ELSE Len(s))

contains(slice, item) == \E i \in 1..Len(slice) : slice[i] = item

RECURSIVE uniqueInto(_, _)
uniqueInto(acc, input) ==
    IF input = <<>> THEN acc
    ELSE uniqueInto(IF contains(acc, Head(input)) THEN acc ELSE Append(acc, Head(input)),
                    Tail(input))

uniqueStrings(input) == uniqueInto(<<>>, input)


-----------------------------------------------------------------------------
(* What an RPC returns: nil, an error without a gRPC status, or a status.  *)

NilErr == [kind |-> "nil", code |-> "OK", msg |-> ""]
TransportErr(text) == [kind |-> "transport", code |-> "", msg |-> text]
St(code, msg) == [kind |-> "status", code |-> code, msg |-> msg]


-----------------------------------------------------------------------------
(* The server under scan. It registers the services `reg`, answers the     *)
(* paths of `handlers` with the handler's status, and answers every other  *)
(* path the way its gRPC library (`style`) reports an unknown method or an *)
(* unknown service. `refl` is what its reflection stream does.             *)

Health == "grpc.health.v1.Health"
ReflectionV1Alpha == "grpc.reflection.v1alpha.ServerReflection"
ReflectionV1 == "grpc.reflection.v1.ServerReflection"

Styles == {"go", "caps", "terse", "java", "proxy", "http", "down"}

NoService(style, svc, m) ==
    CASE style = "go"    -> St("Unimplemented", "unknown service " \o svc)
      [] style = "caps"  -> St("Unimplemented", "Unknown Service " \o svc)
      [] style = "terse" -> St("Unimplemented", "")
      [] style = "java"  -> St("Unimplemented", ("Method not found: " \o svc) \o ("/" \o m))
      [] style = "proxy" -> St("NotFound", "service not found")
      [] style = "http"  ->
            TransportErr("unexpected HTTP status code received from server: 200 (OK)")
      [] style = "down"  -> St("Unavailable", "connection refused")

NoMethod(style, svc, m) ==
    CASE style = "go"    ->
            St("Unimplemented", ("unknown method " \o m) \o (" for service " \o svc))
      [] style = "caps"  -> St("Unimplemented", "Unknown Method " \o m)
      [] style = "terse" -> St("Unimplemented", "")
      [] style = "java"  -> St("Unimplemented", ("Method not found: " \o svc) \o ("/" \o m))
      [] style = "proxy" -> St("NotFound", "")
      [] style = "http"  ->
            TransportErr("unexpected HTTP status code received from server: 200 (OK)")
      [] style = "down"  -> St("Unavailable", "connection refused")

(* What a handler answers to the empty request.                            *)
HandlerResponses ==
    { NilErr,
      St("InvalidArgument", "empty request"),
      St("FailedPrecondition", ""),
      St("OutOfRange", ""),
      St("Unauthenticated", "missing token"),
      St("PermissionDenied", ""),
      St("Internal", "grpc: error unmarshalling request"),
      St("Unavailable", "upstream connect error"),
      St("DeadlineExceeded", "context deadline exceeded"),
      St("NotFound", ""),
      St("Unimplemented", "method not implemented"),
      TransportErr("connection reset by peer") }

(* What the reflection stream does: fails at open, send or receive,        *)
(* answers with another message type, or answers with a service list.      *)
ReflectionLists ==
    { <<>>,
      <<Health>>,
      <<"pkg.Svc", Health>>,
      <<"pkg.Svc", "pkg.Svc">> }

ReflectionOutcomes ==
    { [kind |-> k, names |-> <<>>] : k \in {"openErr", "sendErr", "recvErr", "notList"} }
        \cup { [kind |-> "list", names |-> l] : l \in ReflectionLists }

NoReflectionService == [kind |-> "recvErr", names |-> <<>>]

(* A server is given by its layout (which services and handlers it has),   *)
(* the answer `h` of its handlers where the layout leaves it open, its     *)
(* style and its reflection stream.                                        *)
Server(layout, h, style, refl) ==
    [layout |-> layout, h |-> h, style |-> style, refl |-> refl]

\* "app": the health service and an application service
LayoutApp(h) ==
    [reg |-> {Health, "pkg.Svc"},
     handlers |-> (<<Health, "Check">> :> NilErr) @@ (<<Health, "Watch">> :> h)
                    @@ (<<"pkg.Svc", "Get">> :> h) @@ (<<"pkg.Svc", "Put">> :> NilErr)]

\* "auth": services the name generators aim at
LayoutAuth(h) ==
    [reg |-> {"auth.AuthService", "AuthService", "grpc.gateway.example.HelloService"},
     handlers |-> (<<"auth.AuthService", "Login">> :> h)
                    @@ (<<"AuthService", "GetById">> :> h)
                    @@ (<<"AuthService", "Get">> :> NilErr)
                    @@ (<<"grpc.gateway.example.HelloService", "Get">> :> h)
                    @@ (<<"grpc.gateway.example.HelloService", "SayHello">> :> NilErr)
                    @@ (<<"grpc.gateway.example.HelloService", "Hello">> :> h)]

\* "proto": a user service in the package proto
LayoutProto(h) ==
    [reg |-> {"proto.UserService"},
     handlers |-> (<<"proto.UserService", "Login">> :> h)
                    @@ (<<"proto.UserService", "Register">> :> h)
                    @@ (<<"proto.UserService", "GetProfile">> :> h)]

\* "none": nothing is registered
NoLayout == [reg |-> {}, handlers |-> <<>>]

Layout(s) ==
    CASE s.layout = "app"  -> LayoutApp(s.h)
      [] s.layout = "auth" -> LayoutAuth(s.h)
      [] s.layout = "proto" -> LayoutProto(s.h)
      [] s.layout = "none" -> NoLayout

Respond(s, svc, m) ==
    LET l == Layout(s) IN
    IF <<svc, m>> \in DOMAIN l.handlers THEN l.handlers[<<svc, m>>]
    ELSE IF svc \in l.reg THEN NoMethod(s.style, svc, m)
    ELSE NoService(s.style, svc, m)

Servers ==
    { Server(l, h, "go", NoReflectionService) :
          l \in {"app", "auth"}, h \in HandlerResponses }
    \cup
    { Server(l, St("InvalidArgument", "empty request"), st, NoReflectionService) :
          l \in {"none", "app"}, st \in Styles }
    \cup
    { Server("app", NilErr, "go", o) : o \in ReflectionOutcomes }
    \cup
    { Server("proto", St("InvalidArgument", "empty request"), "go", NoReflectionService) }
-----------------------------------------------------------------------------
(* Bounds of the model.                                                    *)

MaxThreads == 2          \* the largest -threads / -concurrency value tried
MaxDefaultMethods == 2   \* the default method lists are cut to their first entries
MaxSmartPatterns == 2    \* smartBruteForce: the generated patterns that are probed
MaxSmartNames == 1       \* generateSmartPatterns: the service names that are expanded
MaxPotential == 4        \* bruteForceServices: the potential services that are probed
MaxFocused == 2          \* bruteForceServices: the focused methods that are tried
MaxSpecific == 2         \* bruteForceServices: the specific methods that are tried
MaxTargets == 2          \* detector: the number of targets

\* the -threads / -concurrency values: sequential, and MaxThreads workers at once
ThreadCounts == {1, MaxThreads}

-----------------------------------------------------------------------------
(* The names the scanners carry in their code.                             *)

Pattern(s, ms) == [Service |-> s, Methods |-> ms]

commonPatterns ==
    << Pattern("grpc.health.v1.Health", <<"Check", "Watch">>),
       Pattern("grpc.reflection.v1alpha.ServerReflection", <<"ServerReflectionInfo">>),
       Pattern("grpc.reflection.v1.ServerReflection", <<"ServerReflectionInfo">>),
       Pattern("helloworld.Greeter", <<"SayHello">>),
       Pattern("ping.PingService", <<"Ping", "Check", "Health">>),
       Pattern("echo.EchoService", <<"Echo", "Stream">>),
       Pattern("user", <<"Get", "List", "Create", "Update", "Delete", "Login", "Logout">>),
       Pattern("auth", <<"Login", "Logout", "Verify", "Refresh", "Authenticate">>),
       Pattern("product", <<"Get", "List", "Create", "Update", "Delete", "Search">>),
       Pattern("order", <<"Get", "List", "Create", "Update", "Delete", "Process">>) >>

StandardPatterns == SubSeq(commonPatterns, 1, 3)

fallbackStandardMethods ==
    (Health :> <<"Check", "Watch", "List">>)
        @@ (ReflectionV1Alpha :> <<"ServerReflectionInfo">>)
        @@ (ReflectionV1 :> <<"ServerReflectionInfo">>)

knownServices ==
    << "grpc.reflection.v1alpha.ServerReflection",
       "grpc.reflection.v1.ServerReflection",
       "grpc.health.v1.Health",
       "grpc.gateway.example.HelloService",
       "helloworld.Greeter",
       "routeguide.RouteGuide",
       "example.HelloService",
       "example.EchoService",
       "example.UserService",
       "auth.AuthService",
       "user.UserService",
       "product.ProductService",
       "order.OrderService",
       "payment.PaymentService",
       "ping.PingService",
       "test.TestService" >>

(* generatePotentialServiceNames: the known services come first and the    *)
(* list is deduplicated keeping first occurrences; the model probes its    *)
(* first MaxPotential names.                                               *)
potentialServices == Take(uniqueStrings(knownServices), MaxPotential)

focusedMethods ==
    << "Get", "List", "Create", "Update", "Delete",
       "Check", "Ping", "Status", "Health", "Echo",
       "Login", "Verify", "Find", "Search", "Count" >>

-----------------------------------------------------------------------------
(* strings.ToLower and strings.Contains. The status messages of the        *)
(* servers under scan and the substrings the classifiers look for are      *)
(* known in advance: for them the results are tabulated once; every other  *)
(* argument is computed.                                                   *)

SeqRange(s) == { s[i] : i \in DOMAIN s }

TabulatedServices ==
    SeqRange(potentialServices)
        \cup { commonPatterns[i].Service : i \in DOMAIN commonPatterns }
        \cup LayoutApp(NilErr).reg \cup LayoutAuth(NilErr).reg
        \cup LayoutProto(NilErr).reg

TabulatedMethods ==
    SeqRange(focusedMethods)
        \cup UNION { SeqRange(commonPatterns[i].Methods) : i \in DOMAIN commonPatterns }
        \cup UNION { SeqRange(fallbackStandardMethods[s]) : s \in DOMAIN fallbackStandardMethods }
        \cup { p[2] : p \in DOMAIN LayoutApp(NilErr).handlers
                            \cup DOMAIN LayoutAuth(NilErr).handlers
                            \cup DOMAIN LayoutProto(NilErr).handlers }

TabulatedMessages ==
    { r.msg : r \in HandlerResponses }
        \cup { NoService(st, svc, m).msg :
                   st \in Styles, svc \in TabulatedServices, m \in TabulatedMethods }
        \cup { NoMethod(st, svc, m).msg :
                   st \in Styles, svc \in TabulatedServices, m \in TabulatedMethods }

LowerTable == [s \in TabulatedMessages |-> LowerOf(s)]

\* (the argument is bound, so that it is evaluated once)
ToLower(s) ==
    CHOOSE t \in { IF x \in TabulatedMessages THEN LowerTable[x] ELSE LowerOf(x) :
                       x \in {s} } : TRUE

TabulatedLowered == { LowerTable[s] : s \in TabulatedMessages }

TabulatedSubstrings ==
    { "unknown service", "unknown method", "service", "method", "not found",
      "does not exist", "doesn't exist", "unknown" }

ContainsTable ==
    [t \in TabulatedSubstrings |-> [s \in TabulatedLowered |-> Occurs(s, t)]]

StrContains(s, t) ==
    \E x \in {s} :
       IF t \in TabulatedSubstrings /\ x \in TabulatedLowered
       THEN ContainsTable[t][x]
       ELSE Occurs(x, t)

-----------------------------------------------------------------------------
(* The classes of the specification's verdict table, in which the          *)
(* properties below are stated. They are not taken from the code: the      *)
(* switches of the code are checkService and checkMethod, which leave      *)
(* OutOfRange out.                                                         *)
ConfirmingCodes ==
    {"InvalidArgument", "FailedPrecondition", "OutOfRange",
     "Unauthenticated", "PermissionDenied", "Internal"}

IsConfirming(r) ==
    r.kind = "nil" \/ (r.kind = "status" /\ r.code \in ConfirmingCodes)

IsUnimplemented(r) == r.kind = "status" /\ r.code = "Unimplemented"

IsUnknownService(r) ==
    IsUnimplemented(r) /\ StrContains(ToLower(r.msg), "unknown service")

IsInconclusive(r) ==
    r.kind = "transport" \/ (r.kind = "status" /\ r.code = "Unavailable")

IsAmbiguous(r) ==
    r.kind = "status"
        /\ r.code \notin (ConfirmingCodes \cup {"Unimplemented", "Unavailable"})

HasStatus(r) == r.kind \in {"nil", "status"}

-----------------------------------------------------------------------------
(* Scanner.checkService, Scanner.checkMethod, Scanner.detectServiceType:   *)
(* the verdict on the error conn.Invoke returned.                          *)

\* variant: the message of an UNIMPLEMENTED status is not looked at
checkServiceIgnoresMessage(r) ==
    IF r.kind = "nil" THEN TRUE
    ELSE IF r.kind # "status" THEN FALSE
    ELSE r.code \in {"Unimplemented", "InvalidArgument", "FailedPrecondition",
                     "Unauthenticated", "PermissionDenied", "Internal"}

\* variant: every status that is not "unknown service" means the service exists
checkServiceDefaultsToPresent(r) ==
    IF r.kind = "nil" THEN TRUE
    ELSE IF r.kind # "status" THEN FALSE
    ELSE ~(r.code = "Unimplemented" /\ StrContains(ToLower(r.msg), "unknown service"))

\* variant: every error that carries a status confirms the method
checkMethodAnyStatus(r) ==
    r.kind = "nil" \/ r.kind = "status"

checkService(r) ==
    IF r.kind = "nil" THEN TRUE
    ELSE IF r.kind # "status" THEN FALSE
    ELSE IF r.code = "Unimplemented" /\ StrContains(ToLower(r.msg), "unknown service")
         THEN FALSE
    ELSE IF r.code = "Unimplemented" /\ StrContains(ToLower(r.msg), "unknown method")
         THEN TRUE
    ELSE r.code \in {"InvalidArgument", "FailedPrecondition", "Unauthenticated",
                     "PermissionDenied", "Internal"}

checkMethod(r) ==
    IF r.kind = "nil" THEN TRUE
    ELSE IF r.kind # "status" THEN FALSE
    ELSE r.code \in {"InvalidArgument", "FailedPrecondition", "Unauthenticated",
                     "PermissionDenied", "Internal"}

detectServiceType(r) ==
    IF r.kind = "nil" THEN TRUE
    ELSE IF r.kind # "status" THEN FALSE
    ELSE IF r.code = "Unimplemented" THEN TRUE
    ELSE IF r.code = "Unavailable" THEN FALSE
    ELSE TRUE

-----------------------------------------------------------------------------
(* The file-driven scanner classifies inside its loops. Each operator      *)
(* gives what one loop iteration does with the answer `r`:                 *)
(*   found   serviceFound is set,                                          *)
(*   method  the method is appended to the found methods,                  *)
(*   missing serviceExplicitlyNotFound is set (standard check only),       *)
(*   stop    the loop is left (break).                                     *)

Outcome(f, m, x, s) == [found |-> f, method |-> m, missing |-> x, stop |-> s]

\* checkStandardServices, the body of the loop over methods
stdClassify(r) ==
    IF r.kind = "nil" THEN Outcome(TRUE, TRUE, FALSE, TRUE)
    ELSE IF r.kind # "status" THEN Outcome(FALSE, FALSE, FALSE, FALSE)
    ELSE LET errMsg == ToLower(r.msg) IN
         IF r.code \in {"Unimplemented", "NotFound"}
               /\ StrContains(errMsg, "service")
               /\ StrContains(errMsg, "unknown service")
         THEN Outcome(FALSE, FALSE, TRUE, TRUE)
         ELSE IF r.code = "Unimplemented"
               /\ StrContains(errMsg, "method")
               /\ StrContains(errMsg, "unknown method")
         THEN Outcome(TRUE, FALSE, FALSE, FALSE)
         ELSE IF r.code = "Unavailable" THEN Outcome(FALSE, FALSE, FALSE, FALSE)
         ELSE IF r.code \in {"InvalidArgument", "FailedPrecondition", "OutOfRange",
                             "Unauthenticated", "PermissionDenied", "Internal"}
         THEN Outcome(TRUE, TRUE, FALSE, FALSE)
         ELSE Outcome(FALSE, FALSE, FALSE, FALSE)

\* bruteForceServices, the body of the loop over focusedMethods
bruteClassify(r) ==
    IF r.kind = "nil" THEN Outcome(TRUE, TRUE, FALSE, TRUE)
    ELSE IF r.kind # "status" THEN Outcome(FALSE, FALSE, FALSE, FALSE)
    ELSE LET errMsg == ToLower(r.msg) IN
         IF r.code \in {"Unimplemented", "NotFound"}
               /\ StrContains(errMsg, "service")
               /\ (StrContains(errMsg, "not found")
                     \/ StrContains(errMsg, "does not exist")
                     \/ StrContains(errMsg, "doesn't exist")
                     \/ StrContains(errMsg, "unknown"))
         THEN Outcome(FALSE, FALSE, FALSE, FALSE)
         ELSE Outcome(TRUE,
                      r.code \in {"InvalidArgument", "FailedPrecondition", "OutOfRange",
                                  "Unauthenticated", "PermissionDenied"},
                      FALSE, TRUE)

\* bruteForceServices, the body of the loop over specificMethods
specificClassify(r) ==
    IF r.kind = "nil" THEN Outcome(FALSE, TRUE, FALSE, FALSE)
    ELSE IF r.kind # "status" \/ r.code = "Unavailable"
         THEN Outcome(FALSE, FALSE, FALSE, FALSE)
    ELSE Outcome(FALSE,
                 r.code \in {"InvalidArgument", "FailedPrecondition", "Unauthenticated",
                             "PermissionDenied", "Internal"},
                 FALSE, FALSE)
-----------------------------------------------------------------------------
(* Result updates: Scanner.addService and Scanner.addMethod (the bodies    *)
(* run between resultMutex.Lock and Unlock).                               *)

\* variant: the membership test is left out
addServiceWithoutTest(svcs, service) == Append(svcs, service)

\* variant: the membership test is inverted
addServiceInvertedTest(svcs, service) ==
    IF contains(svcs, service) THEN Append(svcs, service) ELSE svcs

addService(svcs, service) ==
    IF contains(svcs, service) THEN svcs ELSE Append(svcs, service)

\* variant: a new method is put in front of the list
addMethodAtFront(mths, service, method) ==
    LET cur == IF service \in DOMAIN mths THEN mths[service] ELSE <<>>
    IN  IF contains(cur, method)
        THEN (service :> cur) @@ mths
        ELSE (service :> (<<method>> \o cur)) @@ mths

addMethod(mths, service, method) ==
    LET cur == IF service \in DOMAIN mths THEN mths[service] ELSE <<>>
    IN  IF contains(cur, method)
        THEN (service :> cur) @@ mths
        ELSE (service :> Append(cur, method)) @@ mths

RECURSIVE addServices(_, _)
addServices(svcs, names) ==
    IF names = <<>> THEN svcs
    ELSE addServices(addService(svcs, Head(names)), Tail(names))

-----------------------------------------------------------------------------
(* Candidates of the scanner.                                              *)

RECURSIVE dedupInto(_, _)
dedupInto(acc, patterns) ==
    IF patterns = <<>> THEN acc
    ELSE dedupInto(IF \E i \in 1..Len(acc) : acc[i].Service = Head(patterns).Service
                   THEN acc ELSE Append(acc, Head(patterns)),
                   Tail(patterns))

deduplicatePatterns(patterns) == dedupInto(<<>>, patterns)

generateMethodsForService(serviceName, baseMethods) ==
    LET l == ToLower(serviceName)
        specific ==
            CASE l \in {"user", "account"} ->
                    <<"Login", "Logout", "Register", "Authenticate", "GetProfile">>
              [] l = "auth" ->
                    <<"Login", "Logout", "Verify", "Refresh", "ValidateToken">>
              [] l \in {"file", "storage"} ->
                    <<"Upload", "Download", "Delete", "GetMetadata">>
              [] l = "payment" ->
                    <<"Process", "Refund", "GetStatus", "Capture">>
              [] OTHER -> <<>>
    IN  (baseMethods \o specific) \o <<"Get" \o serviceName>>

smartServiceNames ==
    << "User", "Auth", "Account", "Profile", "Product", "Order", "Payment", "Cart",
       "File", "Storage", "Media", "Document", "Notification", "Email", "Message",
       "Search", "Query", "Config", "Settings", "Admin", "Management", "System" >>

smartCommonMethods ==
    << "Get", "List", "Create", "Update", "Delete", "Find", "Search", "Count",
       "Exists", "Validate", "Check", "Verify" >>

(* The pattern variants of one name, in the order both generators emit them *)
NameVariants(name) ==
    << name \o "Service",
       (ToLower(name) \o ".") \o (name \o "Service"),
       "api." \o name,
       (ToLower(name) \o ".v1.") \o (name \o "Service") >>

RECURSIVE smartGenerated(_)
smartGenerated(names) ==
    IF names = <<>> THEN <<>>
    ELSE LET name == Head(names)
             ms   == generateMethodsForService(name, smartCommonMethods)
             v    == NameVariants(name)
         IN  << Pattern(ToLower(name), ms), Pattern(v[1], ms), Pattern(v[2], ms),
                Pattern(v[3], ms), Pattern(v[4], ms) >>
             \o smartGenerated(Tail(names))

generateSmartPatterns ==
    deduplicatePatterns(commonPatterns \o smartGenerated(Take(smartServiceNames, MaxSmartNames)))

defaultMethods ==
    << "Get", "List", "Create", "Update", "Delete",
       "Find", "Search", "Query", "Check", "Ping" >>

\* variant: an entry is tried under its raw name only
EntryPatternsRawOnly(service) == <<service>>

(* wordlistBruteForce, lines 485-498: the names tried for one entry.       *)
EntryPatterns(service) ==
    IF ~StrContains(service, ".") /\ ~HasSuffix(service, "Service")
    THEN <<service>> \o NameVariants(service)
    ELSE <<service>>

Cand(pats, ms) == [pats |-> pats, meths |-> ms]

Orderings(S) ==
    { f \in [1..Cardinality(S) -> S] : \A x \in S : \E i \in DOMAIN f : f[i] = x }

(* lines 436-454: the default methods; with global methods the list is     *)
(* rebuilt by ranging over a map, in an order the runtime picks.           *)
DefaultMethodLists(globalMethods) ==
    LET base == Take(defaultMethods, MaxDefaultMethods)
    IN  IF Len(globalMethods) > 0
        THEN Orderings(SeqRange(base \o globalMethods))
        ELSE {base}

WordlistCands(entries, defaults) ==
    [i \in 1..Len(entries) |->
        Cand(EntryPatterns(entries[i].Service),
             IF Len(entries[i].Methods) = 0 THEN defaults ELSE entries[i].Methods)]

SmartCands ==
    LET ps == Take(generateSmartPatterns, MaxSmartPatterns)
    IN  [i \in 1..Len(ps) |->
            Cand(<<ps[i].Service>>, Take(ps[i].Methods, MaxDefaultMethods))]

-----------------------------------------------------------------------------
(* Inputs of a run.                                                        *)

Entry(s, ms) == [Service |-> s, Methods |-> ms]

NoWordlist == [given |-> FALSE, readable |-> FALSE, entries |-> <<>>, globalMethods |-> <<>>]
Wordlist(es, gs) == [given |-> TRUE, readable |-> TRUE, entries |-> es, globalMethods |-> gs]

WordlistInputs ==
    { NoWordlist,
      [given |-> TRUE, readable |-> FALSE, entries |-> <<>>, globalMethods |-> <<>>],
      Wordlist(<<>>, <<>>),
      Wordlist(<<Entry("pkg.Svc", <<"Get", "Put">>), Entry("pkg.Svc", <<"Put", "Get">>)>>, <<>>),
      Wordlist(<<Entry("Auth", <<"Login">>), Entry("AuthService", <<>>)>>, <<"GetById">>),
      Wordlist(<<>>, <<"GetById">>),
      Wordlist(<<Entry("UserService", <<"Login", "Register", "GetProfile">>)>>, <<>>) }

ScannerConfigs ==
    { [wordlist |-> w, threads |-> t] : w \in WordlistInputs, t \in ThreadCounts }

NoReflection == [kind |-> "none", names |-> <<>>]
(* handleDirectTesting, lines 925-961: the services and methods tested.    *)
directTestMethods ==
    <<"Get", "List", "Create", "Update", "Delete", "Check", "Ping">>

RECURSIVE patternServices(_)
patternServices(ps) ==
    IF ps = <<>> THEN <<>> ELSE <<Head(ps).Service>> \o patternServices(Tail(ps))

RECURSIVE directFor(_, _)
directFor(serviceList, testMethods) ==
    IF serviceList = <<>> THEN <<>>
    ELSE (IF Head(serviceList) = "" THEN <<>>
          ELSE <<Pattern(Head(serviceList), testMethods)>>)
         \o directFor(Tail(serviceList), testMethods)

directPatterns(serviceList, methodList) ==
    directFor(IF Len(serviceList) = 0 /\ Len(methodList) > 0
              THEN patternServices(commonPatterns) ELSE serviceList,
              IF Len(methodList) = 0
              THEN Take(directTestMethods, MaxDefaultMethods) ELSE methodList)

DirectInputs ==
    { [services |-> <<>>, methods |-> <<>>],
      [services |-> <<>>, methods |-> <<"Check">>],
      [services |-> <<"pkg.Svc", "", "AuthService">>, methods |-> <<>>],
      [services |-> <<"pkg.Svc", "pkg.Svc">>, methods |-> <<"Put", "Get", "Put">>] }

NoConfig == [wordlist |-> NoWordlist, threads |-> 0]

ChannelStates == {"IDLE", "CONNECTING", "READY", "TRANSIENT_FAILURE", "SHUTDOWN"}


-----------------------------------------------------------------------------
(* The observation of one RPC: where it was issued, by which goroutine,    *)
(* on which path, and what came back.                                      *)

Main == 0

Probe(site, tid, svc, m, r, verdict) ==
    [kind |-> "probe", site |-> site, tid |-> tid, svc |-> svc, m |-> m, resp |-> r,
     verdict |-> verdict]

(* What the code concludes from an answer: the additions to the result it *)
(* entitles ("service", "method"), the service being reported missing     *)
(* ("missing"), the peer being a gRPC server ("grpc").                     *)
Verdict(service, method) ==
    (IF service THEN {"service"} ELSE {}) \cup (IF method THEN {"method"} ELSE {})

NoProbe == [kind |-> "none"]

\* conn.GetState() as seen by a wait loop, and whether WaitForStateChange
\* reported a change before the deadline of the wait
ChannelSeen(state, changed) == [kind |-> "state", state |-> state, changed |-> changed]

Observe(site, tid, svc, m, r, verdict) ==
    /\ last' = Probe(site, tid, svc, m, r, verdict)
    /\ seen' = seen \cup {[site |-> site, svc |-> svc, m |-> m, resp |-> r]}

NoRPC ==
    /\ last' = NoProbe
    /\ UNCHANGED seen

\* conn.Invoke(ctx, ...): every call is made under the context of the run
\* (Run line 176, handleDirectTesting line 902, handleDirectCall line 849,
\* main of the file-driven scanner line 336); once its deadline has passed
\* the call ends at once with DEADLINE_EXCEEDED and nothing is sent
DeadlineError == St("DeadlineExceeded", "context deadline exceeded")

Invoke(service, method) ==
    IF ctx = "expired" THEN DeadlineError ELSE Respond(srv, service, method)

\* the reflection stream opened under the context of the run
ReflectionStream ==
    IF ctx = "expired" THEN [kind |-> "openErr", names |-> <<>>] ELSE srv.refl

\* the deadline of the context passes while the run is under way; nothing
\* in the programs looks at ctx.Done() or ctx.Err()
Expire ==
    /\ prog \in {"scanner", "direct", "legacy", "call"}
    /\ pc \notin {"parse", "done", "output", "failed"}
    /\ ctx = "live"
    /\ ctx' = "expired"
    /\ NoRPC
    /\ UNCHANGED <<inputVars, mainVars, resultVars, poolVars, reflected>>

\* reg is the value a worker has read of the counter it is incrementing
IdleWorker == [pc |-> "idle", pi |-> 1, mi |-> 1, sf |-> FALSE, mf |-> <<>>, reg |-> 0]

\* wordlistBruteForce, lines 463-464: checked := 0; found := 0
WordlistCounters == [checked |-> 0, found |-> 0]

\* only wordlistBruteForce counts (lines 504 and 522); smartBruteForce does not
AfterAddService == IF scanMode = "wordlist" THEN "loadFound" ELSE "checkMeth"

\* variant: no break after a find, the worker probes again
AfterPatternsWithoutBreak == "checkSvc"

AfterPatterns == IF scanMode = "wordlist" THEN "loadChecked" ELSE "exit"

-----------------------------------------------------------------------------
(* Scanner.Run (the main goroutine).                                       *)

\* line 181: grpc.DialContext
S_Dial ==
    /\ prog \in {"scanner", "direct"} /\ pc = "dial"
    /\ \E err \in BOOLEAN : pc' = IF err THEN "failed" ELSE "wait"
    /\ NoRPC
    /\ UNCHANGED <<ctx, prog, srv, cfg, idx, mi, loc, services, methods, reflectionEnabled,
                   scanMode, isGRPC, results, wk, sem, mutex, cands, reflected>>

\* waitForConnection: one observation of the channel state; in CONNECTING
\* WaitForStateChange either reports a change (the loop runs again) or the
\* 5 s deadline expires.
waitForConnection(state, changed) ==
    IF state \in {"READY", "IDLE"} THEN "true"
    ELSE IF state \in {"TRANSIENT_FAILURE", "SHUTDOWN"} THEN "false"
    ELSE IF ~changed THEN (IF state \in {"READY", "IDLE"} THEN "true" ELSE "false")
    ELSE "again"

S_Wait ==
    /\ prog \in {"scanner", "direct"} /\ pc = "wait"
    /\ \E state \in ChannelStates, changed \in BOOLEAN :
          LET w == waitForConnection(state, changed)
          IN  /\ pc' = IF w = "false" THEN "failed"
                        ELSE IF w = "again" THEN "wait"
                        ELSE IF prog = "direct" THEN "std" ELSE "detect"
              \* handleDirectTesting, line 938
              /\ scanMode' = IF prog = "direct" /\ w = "true" THEN "direct" ELSE scanMode
              /\ last' = ChannelSeen(state, changed)
    /\ UNCHANGED seen
    /\ UNCHANGED <<ctx, prog, srv, cfg, idx, mi, loc, services, methods, reflectionEnabled,
                   isGRPC, results, wk, sem, mutex, cands, reflected>>

\* variant: the scan goes on whatever the transport probe concludes
S_DetectGoesOn ==
    /\ prog = "scanner" /\ pc = "detect"
    /\ LET r  == Invoke(Health, "Check")
           ok == detectServiceType(r)
       IN  /\ Observe("detectServiceType", Main, Health, "Check", r,
                      IF ok THEN {"grpc"} ELSE {})
           /\ isGRPC' = {ok}
           /\ pc' = "reflect"
    /\ UNCHANGED <<ctx, prog, srv, cfg, idx, mi, loc, services, methods, reflectionEnabled,
                   scanMode, results, wk, sem, mutex, cands, reflected>>

\* lines 195-201: the transport probe
S_Detect ==
    /\ prog = "scanner" /\ pc = "detect"
    /\ LET r  == Invoke(Health, "Check")
           ok == detectServiceType(r)
       IN  /\ Observe("detectServiceType", Main, Health, "Check", r,
                      IF ok THEN {"grpc"} ELSE {})
           /\ isGRPC' = {ok}
           /\ pc' = IF ok THEN "reflect" ELSE "failed"
    /\ UNCHANGED <<ctx, prog, srv, cfg, idx, mi, loc, services, methods, reflectionEnabled,
                   scanMode, results, wk, sem, mutex, cands, reflected>>

\* variant: reflection is reported as available whatever the stream did
tryReflectionAlways(o) == TRUE

\* tryReflection and lines 209-214
tryReflection(o) == o.kind = "list"

S_Reflect ==
    /\ prog = "scanner" /\ pc = "reflect"
    /\ LET o == ReflectionStream IN
          /\ reflected' = o
          /\ IF tryReflection(o)
             THEN /\ reflectionEnabled' = TRUE
                  /\ services' = addServices(services, o.names)
                  /\ scanMode' = "reflection"
             ELSE UNCHANGED <<reflectionEnabled, services, scanMode>>
    /\ pc' = "stdHealth"
    /\ NoRPC
    /\ UNCHANGED <<ctx, prog, srv, cfg, idx, mi, loc, methods, isGRPC, results, wk, sem, mutex, cands>>

\* checkStandardServices, lines 343-348: the health client's Check
S_StdHealth ==
    /\ prog = "scanner" /\ pc = "stdHealth"
    /\ LET r == Invoke(Health, "Check") IN
          /\ Observe("healthCheck", Main, Health, "Check", r,
                     Verdict(r.kind = "nil", r.kind = "nil"))
          /\ IF r.kind = "nil"
             THEN /\ services' = addService(services, Health)
                  /\ methods' = addMethod(methods, Health, "Check")
             ELSE UNCHANGED <<services, methods>>
    /\ pc' = "std"
    /\ idx' = 1
    /\ UNCHANGED <<ctx, prog, srv, cfg, mi, loc, reflectionEnabled, scanMode, isGRPC, results, wk, sem,
                   mutex, cands, reflected>>

\* the patterns the main goroutine probes itself: commonPatterns[:3] in
\* checkStandardServices, the -service/-method lists in handleDirectTesting
MainPatterns ==
    IF prog = "direct" THEN directPatterns(cfg.services, cfg.methods)
    ELSE StandardPatterns

\* lines 351-353 / 962-963: checkService with the pattern's first method
S_StdService ==
    /\ prog \in {"scanner", "direct"} /\ pc = "std" /\ idx <= Len(MainPatterns)
    /\ LET p  == MainPatterns[idx]
           r  == Invoke(p.Service, p.Methods[1])
           ok == checkService(r)
       IN /\ Observe("checkService", Main, p.Service, p.Methods[1], r,
                     Verdict(ok, FALSE))
          /\ IF ok
             THEN /\ services' = addService(services, p.Service)
                  /\ pc' = "stdMeth"
                  /\ mi' = 1
                  /\ idx' = idx
             ELSE /\ idx' = idx + 1
                  /\ UNCHANGED <<services, pc, mi>>
    /\ UNCHANGED <<ctx, prog, srv, cfg, loc, methods, reflectionEnabled, scanMode, isGRPC, results, wk,
                   sem, mutex, cands, reflected>>

\* lines 354-358 / 966-975: checkMethod for every method of the pattern
S_StdMethod ==
    /\ prog \in {"scanner", "direct"} /\ pc = "stdMeth"
    /\ LET p  == MainPatterns[idx]
           r  == Invoke(p.Service, p.Methods[mi])
           ok == checkMethod(r)
       IN /\ Observe("checkMethod", Main, p.Service, p.Methods[mi], r,
                     Verdict(FALSE, ok))
          /\ methods' = IF ok
                        THEN addMethod(methods, p.Service, p.Methods[mi])
                        ELSE methods
          /\ IF mi < Len(p.Methods)
             THEN mi' = mi + 1 /\ UNCHANGED <<pc, idx>>
             ELSE mi' = 1 /\ pc' = "std" /\ idx' = idx + 1
    /\ UNCHANGED <<ctx, prog, srv, cfg, loc, services, reflectionEnabled, scanMode, isGRPC, results, wk,
                   sem, mutex, cands, reflected>>

\* lines 220-235: the choice of the discovery mode, and the loading of the
\* wordlist (wordlistBruteForce, lines 431-454)
S_Branch ==
    /\ prog = "scanner" /\ pc = "std" /\ idx > Len(StandardPatterns)
    /\ cfg' \in ScannerConfigs
    /\ IF ~reflectionEnabled \/ Len(services) <= 1
       THEN IF cfg'.wordlist.given
            THEN /\ scanMode' = "wordlist"
                 /\ IF ~cfg'.wordlist.readable
                    THEN pc' = "failed" /\ UNCHANGED cands
                    ELSE /\ pc' = "dispatch"
                         /\ \E d \in DefaultMethodLists(cfg'.wordlist.globalMethods) :
                               cands' = WordlistCands(cfg'.wordlist.entries, d)
                 /\ loc' = IF cfg'.wordlist.readable THEN WordlistCounters ELSE loc
            ELSE /\ scanMode' = "bruteforce"
                 /\ pc' = "dispatch"
                 /\ cands' = SmartCands
                 /\ UNCHANGED loc
       ELSE /\ scanMode' = IF scanMode = "" THEN "standard" ELSE scanMode
            /\ pc' = "done"
            /\ UNCHANGED <<cands, loc>>
    /\ idx' = 1
    /\ wk' = [i \in 1..Len(cands') |-> IdleWorker]
    /\ NoRPC
    /\ UNCHANGED <<ctx, prog, srv, mi, services, methods, reflectionEnabled, isGRPC, results,
                   sem, mutex, reflected>>

\* variant: the worker is started without a semaphore slot
S_DispatchUnbounded ==
    /\ prog = "scanner" /\ pc = "dispatch" /\ idx <= Len(cands)
    /\ sem' = sem + 1
    /\ wk' = [wk EXCEPT ![idx].pc = "checkSvc"]
    /\ idx' = idx + 1
    /\ NoRPC
    /\ UNCHANGED <<ctx, prog, srv, cfg, pc, mi, loc, services, methods, reflectionEnabled,
                   scanMode, isGRPC, results, mutex, cands, reflected>>

\* lines 471-475 / 549-553: wg.Add(1); semaphore <- struct{}{}; go func
S_Dispatch ==
    /\ prog = "scanner" /\ pc = "dispatch" /\ idx <= Len(cands)
    /\ sem < cfg.threads
    /\ sem' = sem + 1
    /\ wk' = [wk EXCEPT ![idx].pc = "checkSvc"]
    /\ idx' = idx + 1
    /\ NoRPC
    /\ UNCHANGED <<ctx, prog, srv, cfg, pc, mi, loc, services, methods, reflectionEnabled,
                   scanMode, isGRPC, results, mutex, cands, reflected>>

\* handleDirectTesting returns after the last service
S_DirectDone ==
    /\ prog = "direct" /\ pc = "std" /\ idx > Len(MainPatterns)
    /\ pc' = "done"
    /\ NoRPC
    /\ UNCHANGED <<ctx, inputVars, idx, mi, loc, resultVars, poolVars, reflected>>

\* variant: Run returns without wg.Wait()
S_FinishWithoutWait ==
    /\ prog = "scanner" /\ pc = "dispatch" /\ idx > Len(cands)
    /\ pc' = "done"
    /\ NoRPC
    /\ UNCHANGED <<ctx, prog, srv, cfg, idx, mi, loc, services, methods, reflectionEnabled,
                   scanMode, isGRPC, results, wk, sem, mutex, cands, reflected>>

\* wg.Wait() and the return of Run
S_Finish ==
    /\ prog = "scanner" /\ pc = "dispatch" /\ idx > Len(cands)
    /\ \A i \in DOMAIN wk : wk[i].pc = "gone"
    /\ pc' = "done"
    /\ NoRPC
    /\ UNCHANGED <<ctx, prog, srv, cfg, idx, mi, loc, services, methods, reflectionEnabled,
                   scanMode, isGRPC, results, wk, sem, mutex, cands, reflected>>

\* what PrintResults / SaveResults write
ScanOutput ==
    [AvailableServices |-> services, MethodsFound |-> methods,
     ReflectionEnabled |-> reflectionEnabled, ScanMode |-> scanMode]

\* main, lines 153-154 and 163-170: the results are written once Run (or
\* handleDirectTesting) has returned without an error; after an error main
\* ends in log.Fatalf (line 160) and writes nothing
S_Output ==
    /\ prog \in {"scanner", "direct"} /\ pc = "done"
    /\ results' = <<ScanOutput>>
    /\ pc' = "output"
    /\ NoRPC
    /\ UNCHANGED <<ctx, inputVars, idx, mi, loc, services, methods, reflectionEnabled, scanMode,
                   isGRPC, poolVars, reflected>>

-----------------------------------------------------------------------------
(* The worker goroutine of wordlistBruteForce / smartBruteForce.           *)

\* line 502 / 558: checkService(pattern, methodsToTry[0])
W_CheckService(i) ==
    /\ prog = "scanner" /\ wk[i].pc = "checkSvc"
    /\ LET c == cands[i] IN
       IF Len(c.meths) = 0
       THEN /\ wk' = [wk EXCEPT ![i].pc = AfterPatterns]
            /\ NoRPC
       ELSE \E r \in {Invoke(c.pats[wk[i].pi], c.meths[1])} :
            \E ok \in {checkService(r)} :
            /\ Observe("checkService", i, c.pats[wk[i].pi], c.meths[1], r,
                       Verdict(ok, FALSE))
            /\ wk' = IF ok
                     THEN [wk EXCEPT ![i].pc = "lockSvc", ![i].sf = TRUE]
                     ELSE IF wk[i].pi < Len(c.pats)
                          THEN [wk EXCEPT ![i].pi = @ + 1]
                          ELSE [wk EXCEPT ![i].pc = AfterPatterns]
    /\ UNCHANGED <<ctx, prog, srv, cfg, pc, idx, mi, loc, services, methods, reflectionEnabled,
                   scanMode, isGRPC, results, sem, mutex, cands, reflected>>

\* resultMutex.Lock() in addService / addMethod
W_Lock(i) ==
    /\ prog = "scanner" /\ wk[i].pc \in {"lockSvc", "lockMeth"}
    /\ mutex = {}
    /\ mutex' = {i}
    /\ wk' = [wk EXCEPT ![i].pc = IF @ = "lockSvc" THEN "addSvc" ELSE "addMeth"]
    /\ NoRPC
    /\ UNCHANGED <<ctx, prog, srv, cfg, pc, idx, mi, loc, services, methods, reflectionEnabled,
                   scanMode, isGRPC, results, sem, cands, reflected>>

\* the body of addService and its deferred Unlock
W_AddService(i) ==
    /\ prog = "scanner" /\ wk[i].pc = "addSvc" /\ mutex = {i}
    /\ services' = addService(services, cands[i].pats[wk[i].pi])
    /\ mutex' = {}
    /\ wk' = [wk EXCEPT ![i].pc = AfterAddService, ![i].mi = 1]
    /\ NoRPC
    /\ UNCHANGED <<ctx, prog, srv, cfg, pc, idx, mi, loc, methods, reflectionEnabled,
                   scanMode, isGRPC, results, sem, cands, reflected>>

\* line 509 / 563: checkMethod(pattern, method)
W_CheckMethod(i) ==
    /\ prog = "scanner" /\ wk[i].pc = "checkMeth"
    /\ LET c == cands[i] IN
       \E r \in {Invoke(c.pats[wk[i].pi], c.meths[wk[i].mi])} :
       \E ok \in {checkMethod(r)} :
          /\ Observe("checkMethod", i, c.pats[wk[i].pi], c.meths[wk[i].mi], r,
                     Verdict(FALSE, ok))
          /\ wk' = IF ok
                   THEN [wk EXCEPT ![i].pc = "lockMeth"]
                   ELSE IF wk[i].mi < Len(c.meths)
                        THEN [wk EXCEPT ![i].mi = @ + 1]
                        ELSE [wk EXCEPT ![i].pc = AfterPatterns]
    /\ UNCHANGED <<ctx, prog, srv, cfg, pc, idx, mi, loc, services, methods, reflectionEnabled,
                   scanMode, isGRPC, results, sem, mutex, cands, reflected>>

\* the body of addMethod and its deferred Unlock
W_AddMethod(i) ==
    /\ prog = "scanner" /\ wk[i].pc = "addMeth" /\ mutex = {i}
    /\ LET c == cands[i] IN
       /\ methods' = addMethod(methods, c.pats[wk[i].pi], c.meths[wk[i].mi])
       /\ wk' = IF wk[i].mi < Len(c.meths)
                THEN [wk EXCEPT ![i].pc = "checkMeth", ![i].mi = @ + 1]
                ELSE [wk EXCEPT ![i].pc = AfterPatterns]
    /\ mutex' = {}
    /\ NoRPC
    /\ UNCHANGED <<ctx, prog, srv, cfg, pc, idx, mi, loc, services, reflectionEnabled,
                   scanMode, isGRPC, results, sem, cands, reflected>>

\* found++ (line 504) and checked++ (line 522) are plain increments of
\* variables shared by the workers: the read of the counter ...
W_Load(i) ==
    /\ prog = "scanner" /\ wk[i].pc \in {"loadFound", "loadChecked"}
    /\ wk' = IF wk[i].pc = "loadFound"
             THEN [wk EXCEPT ![i].pc = "storeFound", ![i].reg = loc.found]
             ELSE [wk EXCEPT ![i].pc = "storeChecked", ![i].reg = loc.checked]
    /\ NoRPC
    /\ UNCHANGED <<ctx, prog, srv, cfg, pc, idx, mi, loc, services, methods, reflectionEnabled,
                   scanMode, isGRPC, results, sem, mutex, cands, reflected>>

\* ... and the write of the value read plus one
W_Store(i) ==
    /\ prog = "scanner" /\ wk[i].pc \in {"storeFound", "storeChecked"}
    /\ IF wk[i].pc = "storeFound"
       THEN /\ loc' = [loc EXCEPT !.found = wk[i].reg + 1]
            /\ wk' = [wk EXCEPT ![i].pc = "checkMeth"]
       ELSE /\ loc' = [loc EXCEPT !.checked = wk[i].reg + 1]
            /\ wk' = [wk EXCEPT ![i].pc = "exit"]
    /\ NoRPC
    /\ UNCHANGED <<ctx, prog, srv, cfg, pc, idx, mi, services, methods, reflectionEnabled,
                   scanMode, isGRPC, results, sem, mutex, cands, reflected>>

\* variant: the worker goes on without giving its semaphore slot back
W_ReleaseKeepingSlot(i) ==
    /\ prog = "scanner" /\ wk[i].pc = "exit"
    /\ wk' = [wk EXCEPT ![i].pc = "signal"]
    /\ NoRPC
    /\ UNCHANGED <<ctx, prog, srv, cfg, pc, idx, mi, loc, services, methods, reflectionEnabled,
                   scanMode, isGRPC, results, sem, mutex, cands, reflected>>

\* line 477 / 555: the deferred <-semaphore, the first defer to run
W_Release(i) ==
    /\ prog = "scanner" /\ wk[i].pc = "exit"
    /\ sem' = sem - 1
    /\ wk' = [wk EXCEPT ![i].pc = "signal"]
    /\ NoRPC
    /\ UNCHANGED <<ctx, prog, srv, cfg, pc, idx, mi, loc, services, methods, reflectionEnabled,
                   scanMode, isGRPC, results, mutex, cands, reflected>>

\* line 476 / 554: the deferred wg.Done(), which runs after the slot is free
W_Done(i) ==
    /\ prog = "scanner" /\ wk[i].pc = "signal"
    /\ wk' = [wk EXCEPT ![i].pc = "gone"]
    /\ NoRPC
    /\ UNCHANGED <<ctx, prog, srv, cfg, pc, idx, mi, loc, services, methods, reflectionEnabled,
                   scanMode, isGRPC, results, sem, mutex, cands, reflected>>

ScannerNext ==
    \/ S_Dial \/ S_Wait \/ S_Detect \/ S_Reflect \/ S_StdHealth \/ S_StdService
    \/ S_StdMethod \/ S_Branch \/ S_Dispatch \/ S_Finish \/ S_DirectDone \/ S_Output
    \/ \E i \in DOMAIN wk :
          \/ W_CheckService(i) \/ W_Lock(i) \/ W_AddService(i)
          \/ W_CheckMethod(i) \/ W_AddMethod(i) \/ W_Load(i) \/ W_Store(i)
          \/ W_Release(i) \/ W_Done(i)

-----------------------------------------------------------------------------

-----------------------------------------------------------------------------
(* The file-driven scanner (main, checkStandardServices,                   *)
(* checkHealthService, discoverServicesViaReflection, bruteForceServices). *)

RECURSIVE LastPart(_)
LastPart(s) ==
    IF ~StrContains(s, ".") THEN s
    ELSE CHOOSE t \in { LastPart(x) : x \in {SubSeq(s, 2, Len(s))} } : TRUE

TrimSuffix(s, suffix) ==
    IF HasSuffix(s, suffix) THEN SubSeq(s, 1, Len(s) - Len(suffix)) ELSE s

\* strings.Index: the offset of the first occurrence of t in s, or -1
Index(s, t) ==
    LET hits == {i \in 0..(Len(s) - Len(t)) : SubSeq(s, i + 1, i + Len(t)) = t}
    IN  IF hits = {} THEN -1
        ELSE CHOOSE i \in hits : \A j \in hits : i <= j

HasPrefix(s, t) ==
    Len(s) >= Len(t) /\ SubSeq(s, 1, Len(t)) = t

\* fmt.Sprintf(".v%d.", i) for i = 1..10
versionPatterns ==
    << ".v1.", ".v2.", ".v3.", ".v4.", ".v5.", ".v6.", ".v7.", ".v8.", ".v9.", ".v10." >>

\* mapMethodsForVersionedService, lines 224-233: the offset of the first
\* of the patterns v1..v10 the path holds, or -1
versionIndex(servicePath) ==
    LET hits == { i \in DOMAIN versionPatterns : Occurs(servicePath, versionPatterns[i]) }
    IN  IF hits = {} THEN -1
        ELSE Index(servicePath, versionPatterns[CHOOSE i \in hits : \A j \in hits : i <= j])

(* mapMethodsForVersionedService, lines 216-251: the lists it may return   *)
(* (<<>> for nil). The keys of the map are ranged over in an order the     *)
(* runtime picks, so with several keys of the same prefix and suffix any   *)
(* of their lists may be the one returned. The suffix starts 4 characters  *)
(* after the pattern, whatever the length of the pattern.                  *)
mapMethodsForVersionedService(servicePath, methodsMap) ==
    IF servicePath \in DOMAIN methodsMap THEN {methodsMap[servicePath]}
    ELSE LET versionIdx == versionIndex(servicePath) IN
         IF versionIdx < 0 THEN {<<>>}
         ELSE LET prefix == SubSeq(servicePath, 1, versionIdx)
                  suffix == SubSeq(servicePath, versionIdx + 5, Len(servicePath))
                  same   == { k \in DOMAIN methodsMap :
                                 HasPrefix(k, prefix) /\ HasSuffix(k, suffix) }
              IN  IF same = {} THEN {<<>>} ELSE { methodsMap[k] : k \in same }

\* appendBasicMethodsForServiceName, lines 710-734
appendBasicMethodsForServiceName(serviceName, methodList) ==
    LET basic == methodList \o << "Get" \o serviceName, ("List" \o serviceName) \o "s",
                               "Create" \o serviceName, "Update" \o serviceName,
                               "Delete" \o serviceName >>
        lower == LowerOf(serviceName)
    IN  IF lower = "user"
        THEN basic \o << "Login", "Logout", "Register", "VerifyEmail", "ResetPassword" >>
        ELSE IF lower = "auth"
        THEN basic \o << "Login", "Logout", "Refresh", "Validate", "GenerateToken" >>
        ELSE IF lower = "file"
        THEN basic \o << "Upload", "Download", "Delete", "List", "GetInfo" >>
        ELSE IF lower = "payment"
        THEN basic \o << "Process", "Refund", "GetStatus", "CalculateTotal" >>
        ELSE basic

\* getHighPriorityMethods, lines 1500-1506
highPriority ==
    { "Get", "List", "Create", "Update", "Delete", "GetById", "GetByName", "Search",
      "Count", "Ping", "Check", "Status", "Health", "Version", "Login", "Logout",
      "Authorize", "Validate", "GetConfig", "SetConfig", "GetSettings" }

\* the entries of `methodList` that are (wanted) or are not in highPriority,
\* appended to `acc` while it holds fewer than `limit` entries
RECURSIVE takeWhileRoom(_, _, _, _)
takeWhileRoom(acc, methodList, wanted, limit) ==
    IF methodList = <<>> THEN acc
    ELSE takeWhileRoom(IF ((Head(methodList) \in highPriority) = wanted) /\ Len(acc) < limit
                       THEN Append(acc, Head(methodList)) ELSE acc,
                       Tail(methodList), wanted, limit)

\* getHighPriorityMethods, lines 1498-1526
getHighPriorityMethods(methodList, limit) ==
    LET first == takeWhileRoom(<<>>, methodList, TRUE, limit)
    IN  IF Len(first) < limit THEN takeWhileRoom(first, methodList, FALSE, limit) ELSE first

(* checkStandardServices, lines 526-568: the lists of methodList that may be  *)
(* tried for a standard service.                                           *)
standardMethodsFor(servicePath, standardMethods, commonMethods, fuzzMethods, methodLimit) ==
    { LET methodList ==
              IF Len(found) = 0
              THEN IF Occurs(servicePath, ".v")
                   THEN appendBasicMethodsForServiceName(
                            TrimSuffix(LastPart(servicePath), "Service"), <<"Get">>)
                   ELSE <<"Get">>
              ELSE found
      IN  IF fuzzMethods /\ Len(commonMethods) > 0
          THEN uniqueStrings(
                   methodList \o (IF methodLimit > 0 /\ Len(commonMethods) > methodLimit
                               THEN getHighPriorityMethods(commonMethods, methodLimit)
                               ELSE commonMethods))
          ELSE methodList
      : found \in mapMethodsForVersionedService(servicePath, standardMethods) }

\* bruteForceServices, lines 1026-1056
specificMethods(servicePath) ==
    LET serviceLower == ToLower(servicePath)
        serviceType ==
            TrimSuffix(TrimSuffix(TrimSuffix(ToLower(LastPart(servicePath)),
                                             "service"), "server"), "api")
    IN  IF StrContains(serviceLower, "user") \/ serviceType = "user"
        THEN << "GetUser", "CreateUser", "UpdateUser", "DeleteUser",
                "Login", "Logout", "Register", "VerifyEmail", "ResetPassword" >>
        ELSE IF StrContains(serviceLower, "product") \/ serviceType = "product"
        THEN << "GetProduct", "ListProducts", "CreateProduct", "UpdateProduct",
                "DeleteProduct", "SearchProducts", "GetProductDetails", "GetProductByID" >>
        ELSE IF StrContains(serviceLower, "auth") \/ serviceType = "auth"
        THEN << "Login", "Logout", "Authenticate", "Authorize", "ValidateToken",
                "RefreshToken", "GenerateToken", "VerifyCredentials" >>
        ELSE IF StrContains(serviceLower, "ping") \/ serviceType = "ping"
        THEN << "Ping", "Echo", "Check", "Status", "Health", "IsAlive" >>
        ELSE IF StrContains(serviceLower, "hello") \/ serviceType = "hello"
        THEN << "SayHello", "Hello", "Greet", "StreamHello" >>
        ELSE <<>>

\* the specific methods of the potential services are computed once
SpecificMethodsTable == [s \in SeqRange(potentialServices) |-> specificMethods(s)]

specificMethodsOf(servicePath) ==
    IF servicePath \in DOMAIN SpecificMethodsTable
    THEN SpecificMethodsTable[servicePath]
    ELSE specificMethods(servicePath)

\* the locked updates of checkStandardServices (684-706) and
\* bruteForceServices (1101-1130)
addFound(svcs, servicePath) ==
    IF ~contains(svcs, servicePath) THEN Append(svcs, servicePath) ELSE svcs

appendMethods(mths, servicePath, found) ==
    LET cur == IF servicePath \in DOMAIN mths THEN mths[servicePath] ELSE <<>>
    IN  (servicePath :> uniqueStrings(cur \o found)) @@ mths

RECURSIVE addDiscovered(_, _)
addDiscovered(svcs, names) ==
    IF names = <<>> THEN svcs
    ELSE addDiscovered(addFound(svcs, Head(names)), Tail(names))

\* discoverServicesViaReflection: its return value
discoverServicesViaReflection(o) == o.kind = "list" /\ Len(o.names) > 0

(* Inputs: the services file, the methods file, and the flags.             *)
Standard(paths, methodsMap, commonMethods, fuzzMethods, methodLimit) ==
    [paths |-> paths, methods |-> methodsMap, commonMethods |-> commonMethods,
     fuzzMethods |-> fuzzMethods, methodLimit |-> methodLimit]

\* the defaults; a services file with a repeated path, a later version of
\* the health service and a versioned path the methods map does not hold;
\* -fuzz-methods with a limit, for a path of which the methods file holds
\* two other versions
LegacyStandard ==
    { Standard(<<Health, "pkg.Svc">>, fallbackStandardMethods, <<>>, FALSE, 0),
      Standard(<<"pkg.Svc", "pkg.Svc", "grpc.health.v2.Health", "user.v1.UserService">>,
               ("pkg.Svc" :> <<"Get", "Put", "Get">>) @@ fallbackStandardMethods,
               <<>>, FALSE, 0),
      Standard(<<"pkg.v3.Svc">>,
               ("pkg.v1.Svc" :> <<"Get">>) @@ ("pkg.v2.Svc" :> <<"Put">>),
               <<"Describe", "Get", "List", "Check">>, TRUE, 2) }

\* -brute (default false), -auto-brute (default true), whether the
\* wordlist file can be read, -threads: the default run, -brute,
\* -auto-brute=false, and -brute with an unreadable wordlist
LegacyFlags ==
    { [brute |-> f[1], autoBrute |-> f[2], wordlistReadable |-> f[3], threads |-> t] :
          f \in { <<FALSE, TRUE, TRUE>>, <<TRUE, TRUE, TRUE>>,
                   <<FALSE, FALSE, TRUE>>, <<TRUE, TRUE, FALSE>> },
          t \in ThreadCounts }

\* the flags a run is tried with: the workers run side by side under the
\* default files, and one at a time under every other pair of files
LegacyFlagsFor(std) ==
    IF std.paths = <<Health, "pkg.Svc">> THEN LegacyFlags
    ELSE { f \in LegacyFlags : f.threads = 1 }

NoFlags == [brute |-> FALSE, autoBrute |-> FALSE, wordlistReadable |-> TRUE, threads |-> 0]

LegacyConfig(std, flags) == [std |-> std, flags |-> flags]

\* serviceFound, foundMethods and serviceExplicitlyNotFound of the service
\* under test, and the methods that are tried for it
NoFound == [serviceFound |-> FALSE, foundMethods |-> <<>>, missing |-> FALSE,
            methods |-> <<>>]

LegacyWorker == [pc |-> "idle", mi |-> 1, sf |-> FALSE, mf |-> <<>>]

\* main, lines 340-343: grpc.Dial
L_Dial ==
    /\ prog = "legacy" /\ pc = "dial"
    /\ \E err \in BOOLEAN : pc' = IF err THEN "failed" ELSE "wait"
    /\ idx' = 1 /\ mi' = 1 /\ loc' = NoFound
    /\ NoRPC
    /\ UNCHANGED <<ctx, inputVars, resultVars, poolVars, reflected>>

\* main, lines 350-364: the loop ends when the channel is READY or IDLE and
\* when WaitForStateChange reports no change within 5 s; main goes on to
\* checkStandardServices either way
waitLoop(state, changed) ==
    IF state \in {"READY", "IDLE"} THEN "break"
    ELSE IF ~changed THEN "break"
    ELSE "again"

L_Wait ==
    /\ prog = "legacy" /\ pc = "wait"
    /\ \E state \in ChannelStates, changed \in BOOLEAN :
          /\ pc' = IF waitLoop(state, changed) = "break" THEN "std" ELSE "wait"
          /\ last' = ChannelSeen(state, changed)
    /\ UNCHANGED seen
    /\ UNCHANGED <<ctx, inputVars, idx, mi, loc, resultVars, poolVars, reflected>>

\* checkStandardServices, lines 575-666: one iteration of the method loop
L_StdProbe ==
    /\ prog = "legacy" /\ pc = "std" /\ idx <= Len(cfg.std.paths)
    /\ \E ms \in IF mi = 1
                  THEN standardMethodsFor(cfg.std.paths[idx], cfg.std.methods,
                                          cfg.std.commonMethods, cfg.std.fuzzMethods,
                                          cfg.std.methodLimit)
                  ELSE {loc.methods} :
       LET servicePath == cfg.std.paths[idx]
           r  == Invoke(servicePath, ms[mi])
           o  == stdClassify(r)
       IN  /\ Observe("standard", Main, servicePath, ms[mi], r,
                      IF o.missing THEN {"missing"} ELSE Verdict(o.found, o.method))
           /\ loc' = [serviceFound |-> loc.serviceFound \/ o.found,
                      foundMethods |-> IF o.method THEN Append(loc.foundMethods, ms[mi])
                                       ELSE loc.foundMethods,
                      missing |-> o.missing,
                      methods |-> ms]
           /\ IF o.stop \/ mi = Len(ms)
              THEN pc' = "stdUpdate" /\ mi' = 1
              ELSE mi' = mi + 1 /\ UNCHANGED pc
    /\ UNCHANGED <<ctx, inputVars, idx, resultVars, poolVars, reflected>>

\* checkStandardServices, lines 668-707: after the method loop
L_StdUpdate ==
    /\ prog = "legacy" /\ pc = "stdUpdate"
    /\ LET servicePath == cfg.std.paths[idx] IN
       IF ~loc.missing /\ loc.serviceFound
       THEN /\ mutex = {}
            /\ services' = addFound(services, servicePath)
            /\ methods' = IF Len(loc.foundMethods) > 0
                          THEN appendMethods(methods, servicePath, loc.foundMethods)
                          ELSE methods
       ELSE UNCHANGED <<services, methods>>
    /\ pc' = "std" /\ idx' = idx + 1 /\ loc' = NoFound
    /\ NoRPC
    /\ UNCHANGED <<ctx, inputVars, mi, reflectionEnabled, scanMode, isGRPC, results,
                   poolVars, reflected>>

\* checkHealthService, lines 736-776 (the per-service queries that follow
\* only fill HealthStatus, which the model does not carry)
L_Health ==
    /\ prog = "legacy" /\ pc = "std" /\ idx > Len(cfg.std.paths)
    /\ LET r == Invoke(Health, "Check") IN
          /\ Observe("healthCheck", Main, Health, "Check", r,
                     Verdict(r.kind = "nil", r.kind = "nil"))
          /\ IF r.kind = "nil"
             THEN /\ services' = addFound(services, Health)
                  /\ methods' =
                        LET cur == IF Health \in DOMAIN methods THEN methods[Health] ELSE <<>>
                        IN  (Health :> (IF ~contains(cur, "Check")
                                        THEN Append(cur, "Check") ELSE cur)) @@ methods
             ELSE UNCHANGED <<services, methods>>
    /\ pc' = "reflect"
    /\ UNCHANGED <<ctx, inputVars, idx, mi, loc, reflectionEnabled, scanMode, isGRPC,
                   results, poolVars, reflected>>

\* main, lines 386-405, and discoverServicesViaReflection
L_Reflect ==
    /\ prog = "legacy" /\ pc = "reflect"
    /\ LET o == ReflectionStream IN
          /\ reflected' = o
          /\ services' = IF o.kind = "list" /\ Len(o.names) > 0
                         THEN addDiscovered(services, o.names) ELSE services
          /\ reflectionEnabled' = IF o.kind = "openErr" THEN FALSE
                                  ELSE discoverServicesViaReflection(o)
    /\ pc' = "branch"
    /\ NoRPC
    /\ UNCHANGED <<ctx, inputVars, idx, mi, loc, methods, scanMode, isGRPC, results, poolVars>>

\* main, lines 407-427: shouldBruteForce
shouldBruteForce(flags, enabled, svcs) ==
    IF flags.autoBrute /\ ~enabled /\ Len(svcs) = 0 THEN TRUE
    ELSE IF flags.autoBrute /\ Len(svcs) = 0 THEN TRUE
    ELSE IF flags.autoBrute /\ ~enabled /\ Len(svcs) <= 1 THEN TRUE
    ELSE flags.brute

\* main, lines 407-437, and the start of bruteForceServices
L_Branch ==
    /\ prog = "legacy" /\ pc = "branch"
    /\ \E f \in LegacyFlagsFor(cfg.std) :
          /\ cfg' = [cfg EXCEPT !.flags = f]
          /\ IF shouldBruteForce(f, reflectionEnabled, services)
             THEN IF f.wordlistReadable
                  THEN /\ pc' = "dispatch"
                       /\ cands' = potentialServices
                  ELSE pc' = "failed" /\ UNCHANGED cands
             ELSE pc' = "done" /\ UNCHANGED cands
    /\ idx' = 1
    /\ wk' = [i \in 1..Len(cands') |-> LegacyWorker]
    /\ NoRPC
    /\ UNCHANGED <<ctx, prog, srv, mi, loc, resultVars, sem, mutex, reflected>>

\* bruteForceServices, lines 938-942: wg.Add(1); semaphore <- struct{}{}; go func
L_Dispatch ==
    /\ prog = "legacy" /\ pc = "dispatch" /\ idx <= Len(cands)
    /\ sem < cfg.flags.threads
    /\ sem' = sem + 1
    /\ wk' = [wk EXCEPT ![idx].pc = "focused"]
    /\ idx' = idx + 1
    /\ NoRPC
    /\ UNCHANGED <<ctx, inputVars, pc, mi, loc, resultVars, mutex, cands, reflected>>

\* wg.Wait() and the rest of main
L_Finish ==
    /\ prog = "legacy" /\ pc = "dispatch" /\ idx > Len(cands)
    /\ \A i \in DOMAIN wk : wk[i].pc = "gone"
    /\ pc' = "done"
    /\ NoRPC
    /\ UNCHANGED <<ctx, inputVars, idx, mi, loc, resultVars, poolVars, reflected>>

\* what follows the loop over focusedMethods
AfterFocused(w, servicePath) ==
    IF w.sf /\ Len(w.mf) > 0
    THEN IF Len(Take(specificMethodsOf(servicePath), MaxSpecific)) > 0
         THEN [w EXCEPT !.pc = "specific", !.mi = 1]
         ELSE [w EXCEPT !.pc = "lock"]
    ELSE [w EXCEPT !.pc = "exit"]

\* bruteForceServices, lines 950-1018: one iteration over focusedMethods
LW_Focused(i) ==
    /\ prog = "legacy" /\ wk[i].pc = "focused"
    /\ \E ms \in {Take(focusedMethods, MaxFocused)} :
       \E m \in {ms[wk[i].mi]} :
       \E r \in {Invoke(cands[i], m)} :
       \E o \in {bruteClassify(r)} :
       LET w  == [wk[i] EXCEPT !.sf = @ \/ o.found,
                               !.mf = IF o.method THEN Append(@, m) ELSE @]
       IN  /\ Observe("focused", i, cands[i], m, r, Verdict(o.method, o.method))
           /\ wk' = [wk EXCEPT ![i] =
                        IF o.stop \/ wk[i].mi = Len(ms)
                        THEN AfterFocused(w, cands[i])
                        ELSE [w EXCEPT !.mi = @ + 1]]
    /\ UNCHANGED <<ctx, inputVars, mainVars, resultVars, sem, mutex, cands, reflected>>

\* bruteForceServices, lines 1063-1096: one iteration over specificMethods
LW_Specific(i) ==
    /\ prog = "legacy" /\ wk[i].pc = "specific"
    /\ \E ms \in {Take(specificMethodsOf(cands[i]), MaxSpecific)} :
       \E m \in {ms[wk[i].mi]} :
       \E r \in {Invoke(cands[i], m)} :
       \E o \in {specificClassify(r)} :
       LET w  == [wk[i] EXCEPT !.mf = IF o.method THEN Append(@, m) ELSE @]
       IN  /\ Observe("specific", i, cands[i], m, r, Verdict(FALSE, o.method))
           /\ wk' = [wk EXCEPT ![i] =
                        IF wk[i].mi = Len(ms)
                        THEN [w EXCEPT !.pc = "lock"]
                        ELSE [w EXCEPT !.mi = @ + 1]]
    /\ UNCHANGED <<ctx, inputVars, mainVars, resultVars, sem, mutex, cands, reflected>>

\* line 1103: result.mutex.Lock()
LW_Lock(i) ==
    /\ prog = "legacy" /\ wk[i].pc = "lock"
    /\ mutex = {}
    /\ mutex' = {i}
    /\ wk' = [wk EXCEPT ![i].pc = "update"]
    /\ NoRPC
    /\ UNCHANGED <<ctx, inputVars, mainVars, resultVars, sem, cands, reflected>>

\* lines 1106-1130 and the deferred Unlock
LW_Update(i) ==
    /\ prog = "legacy" /\ wk[i].pc = "update" /\ mutex = {i}
    /\ services' = addFound(services, cands[i])
    /\ methods' = appendMethods(methods, cands[i], wk[i].mf)
    /\ mutex' = {}
    /\ wk' = [wk EXCEPT ![i].pc = "exit"]
    /\ NoRPC
    /\ UNCHANGED <<ctx, inputVars, mainVars, reflectionEnabled, scanMode, isGRPC, results,
                   sem, cands, reflected>>

\* line 943: the deferred <-semaphore, which runs before wg.Done()
LW_Release(i) ==
    /\ prog = "legacy" /\ wk[i].pc = "exit"
    /\ sem' = sem - 1
    /\ wk' = [wk EXCEPT ![i].pc = "signal"]
    /\ NoRPC
    /\ UNCHANGED <<ctx, inputVars, mainVars, resultVars, mutex, cands, reflected>>

\* line 942: the deferred wg.Done()
LW_Done(i) ==
    /\ prog = "legacy" /\ wk[i].pc = "signal"
    /\ wk' = [wk EXCEPT ![i].pc = "gone"]
    /\ NoRPC
    /\ UNCHANGED <<ctx, inputVars, mainVars, resultVars, sem, mutex, cands, reflected>>

LegacyNext ==
    \/ L_Dial \/ L_Wait \/ L_StdProbe \/ L_StdUpdate \/ L_Health \/ L_Reflect \/ L_Branch
    \/ L_Dispatch \/ L_Finish
    \/ \E i \in DOMAIN wk :
          \/ LW_Focused(i) \/ LW_Specific(i) \/ LW_Lock(i) \/ LW_Update(i)
          \/ LW_Release(i) \/ LW_Done(i)

-----------------------------------------------------------------------------
(* The multi-target detector (detectGRPCServices, checkGRPCService).       *)
(* Every target is a peer of its own: how the dial ends, the state of the  *)
(* connection, and what the peer answers to Health/Check.                  *)

Target(dial, state, resp) == [dial |-> dial, state |-> state, resp |-> resp]

DetectResponses ==
    { NilErr,
      St("Unimplemented", "unknown service grpc.health.v1.Health"),
      St("Unavailable", "connection closing"),
      St("InvalidArgument", "empty request"),
      St("DeadlineExceeded", "context deadline exceeded"),
      TransportErr("unexpected HTTP status code received from server: 200 (OK)") }

TargetKinds ==
    { Target("err", "SHUTDOWN", NilErr),
      Target("ok", "TRANSIENT_FAILURE", NilErr),
      Target("ok", "SHUTDOWN", NilErr) }
    \cup { Target("ok", "READY", r) : r \in DetectResponses }

\* one target of each way checkGRPCService can end
ConcurrentKinds ==
    { Target("err", "SHUTDOWN", NilErr),
      Target("ok", "TRANSIENT_FAILURE", NilErr),
      Target("ok", "READY", NilErr),
      Target("ok", "READY", St("InvalidArgument", "empty request")),
      Target("ok", "READY",
             TransportErr("unexpected HTTP status code received from server: 200 (OK)")) }

\* a single target of every kind, and longer lists of the kinds above
TargetLists ==
    [1..1 -> TargetKinds] \cup UNION { [1..n -> ConcurrentKinds] : n \in 2..MaxTargets }

DetectConfigs ==
    { [targets |-> ts, threads |-> n] : ts \in TargetLists, n \in ThreadCounts }

\* Latency is {} until a return path assigns time.Since(startTime)
DetectResult(isGrpc, error, latency) ==
    [IsGRPC |-> isGrpc, Error |-> error, Latency |-> latency]

MaxElapsed == 1

\* what time.Since(startTime) may give: no time, or the longest time tried
Elapsed == {0, MaxElapsed}

\* variant: the state of the connection is not looked at
checkGRPCServiceAnyState(t, d) ==
    IF t.dial = "err" THEN DetectResult(FALSE, "dial", {d})
    ELSE IF t.resp.kind \in {"nil", "status"} THEN DetectResult(TRUE, "", {d})
    ELSE DetectResult(FALSE, "Non-gRPC response", {d})

\* d is the time the call takes
checkGRPCService(t, d) ==
    IF t.dial = "err" THEN DetectResult(FALSE, "dial", {d})
    ELSE IF t.state \in {"TRANSIENT_FAILURE", "SHUTDOWN"}
         THEN DetectResult(FALSE, "Connection failed: " \o t.state, {d})
    ELSE IF t.resp.kind = "nil" THEN DetectResult(TRUE, "", {d})
    ELSE IF t.resp.kind = "status" THEN DetectResult(TRUE, "", {d})
    ELSE DetectResult(FALSE, "Non-gRPC response", {d})

\* whether checkGRPCService gets as far as the Invoke of line 302
Invokes(t) == t.dial = "ok" /\ t.state \notin {"TRANSIENT_FAILURE", "SHUTDOWN"}

\* processed and found, lines 201-202
NoCounters == [processed |-> 0, found |-> 0]

DetectWorker == [pc |-> "idle", target |-> 0, result |-> DetectResult(FALSE, "", {})]

\* detectGRPCServices, lines 225-229: wg.Add(1); semaphore <- struct{}{}; go func
DT_Dispatch ==
    /\ prog = "detect" /\ pc = "dispatch" /\ idx <= Len(cfg.targets)
    /\ sem < cfg.threads
    /\ sem' = sem + 1
    /\ wk' = [wk EXCEPT ![idx].pc = "check"]
    /\ idx' = idx + 1
    /\ NoRPC
    /\ UNCHANGED <<ctx, inputVars, pc, mi, loc, resultVars, mutex, cands, reflected>>

\* variant: the buffer of resultsChan is one result short
resultsChanOneShort == Len(cfg.targets) - 1

\* line 199: resultsChan = make(chan DetectResult, len(targets))
resultsChanCap == Len(cfg.targets)

\* lines 233-234: result := checkGRPCService(t); resultsChan <- result; the
\* send waits while the buffer is full, and nothing receives before wg.Wait()
DT_Check(i) ==
    /\ prog = "detect" /\ wk[i].pc = "check"
    /\ Len(results) < resultsChanCap
    /\ \E d \in Elapsed :
         LET t == cfg.targets[i]
             res == checkGRPCService(t, d)
         IN  /\ IF Invokes(t)
                THEN Observe("checkGRPCService", i, Health, "Check", t.resp,
                             IF res.IsGRPC THEN {"grpc"} ELSE {})
                ELSE NoRPC
             /\ results' = Append(results, [target |-> i, IsGRPC |-> res.IsGRPC,
                                            Error |-> res.Error, Latency |-> res.Latency])
             /\ wk' = [wk EXCEPT ![i].pc = "exit", ![i].target = i, ![i].result = res]
    /\ UNCHANGED <<ctx, inputVars, mainVars, services, methods, reflectionEnabled, scanMode,
                   isGRPC, sem, mutex, cands, reflected>>

\* line 236: atomic.AddInt32(&processed, 1)
DT_AddProcessed(i) ==
    /\ prog = "detect" /\ wk[i].pc = "exit"
    /\ loc' = [loc EXCEPT !.processed = @ + 1]
    /\ wk' = [wk EXCEPT ![i].pc = IF wk[i].result.IsGRPC THEN "found" ELSE "release"]
    /\ NoRPC
    /\ UNCHANGED <<ctx, inputVars, pc, idx, mi, resultVars, sem, mutex, cands, reflected>>

\* lines 237-239: if result.IsGRPC { atomic.AddInt32(&found, 1) }
DT_AddFound(i) ==
    /\ prog = "detect" /\ wk[i].pc = "found"
    /\ loc' = [loc EXCEPT !.found = @ + 1]
    /\ wk' = [wk EXCEPT ![i].pc = "release"]
    /\ NoRPC
    /\ UNCHANGED <<ctx, inputVars, pc, idx, mi, resultVars, sem, mutex, cands, reflected>>

\* line 231: the deferred <-semaphore, the first defer to run
DT_Release(i) ==
    /\ prog = "detect" /\ wk[i].pc = "release"
    /\ sem' = sem - 1
    /\ wk' = [wk EXCEPT ![i].pc = "signal"]
    /\ NoRPC
    /\ UNCHANGED <<ctx, inputVars, pc, idx, mi, loc, resultVars, mutex, cands, reflected>>

\* line 230: the deferred wg.Done()
DT_Done(i) ==
    /\ prog = "detect" /\ wk[i].pc = "signal"
    /\ wk' = [wk EXCEPT ![i].pc = "gone"]
    /\ NoRPC
    /\ UNCHANGED <<ctx, inputVars, pc, idx, mi, loc, resultVars, sem, mutex, cands, reflected>>

\* lines 244-258: wg.Wait(); close(resultsChan); the results are collected
DT_Collect ==
    /\ prog = "detect" /\ pc = "dispatch" /\ idx > Len(cfg.targets)
    /\ \A i \in DOMAIN wk : wk[i].pc = "gone"
    /\ pc' = "done"
    /\ NoRPC
    /\ UNCHANGED <<ctx, inputVars, idx, mi, loc, resultVars, poolVars, reflected>>

DetectNext ==
    \/ DT_Dispatch \/ DT_Collect
    \/ \E i \in DOMAIN wk :
          \/ DT_Check(i) \/ DT_AddProcessed(i) \/ DT_AddFound(i)
          \/ DT_Release(i) \/ DT_Done(i)

-----------------------------------------------------------------------------
(* Version fuzzing of the file-driven scanner (--fuzz-versions):           *)
(* generateVersionedServicePaths and fuzzServiceVersions.                  *)

Digits == <<"0", "1", "2", "3", "4", "5", "6", "7", "8", "9">>

\* the %d of fmt.Sprintf, for n >= 0
RECURSIVE Itoa(_)
Itoa(n) ==
    IF n < 10 THEN Digits[n + 1]
    ELSE Itoa(n \div 10) \o Digits[(n % 10) + 1]

\* fmt.Sprintf(".v%d.", i)
VersionPattern(i) == (".v" \o Itoa(i)) \o "."

\* strings.Replace(s, old, new, 1)
ReplaceFirst(s, old, new) ==
    LET i == Index(s, old)
    IN  IF i < 0 THEN s
        ELSE (SubSeq(s, 1, i) \o new) \o SubSeq(s, i + Len(old) + 1, Len(s))

\* lines 183-193: the path with its first matching version pattern (the
\* lowest version number present) replaced by version v
versionedPath(servicePath, maxVersion, v) ==
    LET present == {i \in 1..maxVersion : StrContains(servicePath, VersionPattern(i))}
    IN  IF present = {} THEN servicePath
        ELSE ReplaceFirst(servicePath,
                          VersionPattern(CHOOSE i \in present : \A j \in present : i <= j),
                          VersionPattern(v))

\* lines 181-199: the loop over v, from version v on
RECURSIVE versionedFrom(_, _, _)
versionedFrom(servicePath, maxVersion, v) ==
    IF v > maxVersion THEN <<>>
    ELSE LET p == versionedPath(servicePath, maxVersion, v)
         IN  (IF p # servicePath THEN <<p>> ELSE <<>>)
                 \o versionedFrom(servicePath, maxVersion, v + 1)

generateVersionedServicePaths(servicePath, maxVersion) ==
    IF /\ ~StrContains(servicePath, ".v1.")
       /\ ~StrContains(servicePath, ".v2.")
       /\ ~StrContains(servicePath, ".v3.")
    THEN <<servicePath>>
    ELSE Append(versionedFrom(servicePath, maxVersion, 1), servicePath)

RECURSIVE fuzzServiceVersions(_, _)
fuzzServiceVersions(servicePaths, maxVersion) ==
    IF servicePaths = <<>> THEN <<>>
    ELSE generateVersionedServicePaths(Head(servicePaths), maxVersion)
             \o fuzzServiceVersions(Tail(servicePaths), maxVersion)

MaxVersion == 4      \* the largest --max-version value tried
MaxPaths == 2        \* the longest list of service paths that is fuzzed
MaxFuzzRuns == 2     \* how many times in a row the list is fuzzed

FuzzPaths ==
    { "pkg.Svc", "pkg.v1.Svc", "pkg.v2.Svc", "pkg.v4.Svc", "pkg.v1.sub.v2.Svc" }

FuzzInputs ==
    { [paths |-> ps, maxVersion |-> n] :
          ps \in UNION { [1..k -> FuzzPaths] : k \in 0..MaxPaths },
          n \in 0..MaxVersion }

\* main, lines 287-289: standardServicePaths = fuzzServiceVersions(...).
\* `cands` keeps the list that went in, `results` the list that came out;
\* a further run fuzzes the list the last one produced.
F_Fuzz ==
    /\ prog = "fuzz" /\ pc = "fuzz" /\ idx <= MaxFuzzRuns
    /\ LET input == IF idx = 1 THEN cfg.paths ELSE results IN
          /\ cands' = input
          /\ results' = fuzzServiceVersions(input, cfg.maxVersion)
    /\ idx' = idx + 1
    /\ NoRPC
    /\ UNCHANGED <<ctx, inputVars, pc, mi, loc, services, methods, reflectionEnabled, scanMode,
                   isGRPC, wk, sem, mutex, reflected>>

FuzzNext == F_Fuzz

-----------------------------------------------------------------------------
(* The -call form of direct testing (handleDirectCall): one Invoke of      *)
(* /Service/Method, and a line printed for what came back.                 *)

\* strings.LastIndex
LastIndex(s, t) ==
    LET hits == {i \in 0..(Len(s) - Len(t)) : SubSeq(s, i + 1, i + Len(t)) = t}
    IN  IF hits = {} THEN -1
        ELSE CHOOSE i \in hits : \A j \in hits : i >= j

Call(ok, service, method) == [ok |-> ok, service |-> service, method |-> method]

\* lines 828-846: Service/Method (first slash) or Service.Method (last dot);
\* ok is false where the code ends the program with log.Fatalf
parseCall(call) ==
    LET parsed ==
            IF StrContains(call, "/")
            THEN LET i == Index(call, "/")
                 IN  Call(TRUE, SubSeq(call, 1, i), SubSeq(call, i + 2, Len(call)))
            ELSE IF StrContains(call, ".")
            THEN LET lastDot == LastIndex(call, ".")
                 IN  Call(TRUE, SubSeq(call, 1, lastDot),
                          SubSeq(call, lastDot + 2, Len(call)))
            ELSE Call(FALSE, "", "")
    IN  IF parsed.ok /\ parsed.method = "" THEN Call(FALSE, parsed.service, "") ELSE parsed

\* lines 864-897: the line that is printed for the answer r
handleDirectCall(r) ==
    IF r.kind = "nil" THEN "Success: Method exists"
    ELSE IF r.kind # "status" THEN "Non-gRPC error"
    ELSE CASE r.code = "Unimplemented" ->
                 IF StrContains(ToLower(r.msg), "unknown service")
                 THEN "Service not found"
                 ELSE IF StrContains(ToLower(r.msg), "unknown method")
                 THEN "Service exists but method not found"
                 ELSE "Unimplemented"
           [] r.code = "InvalidArgument"  -> "Method exists!"
           [] r.code = "Unauthenticated"  -> "Method exists but requires authentication"
           [] r.code = "PermissionDenied" -> "Method exists but access denied"
           [] r.code = "Internal"         -> "Internal error (method may exist)"
           [] OTHER                       -> "Error"

\* what a printed line says about the service and about the method
SaysServiceExists ==
    { "Success: Method exists", "Service exists but method not found", "Method exists!",
      "Method exists but requires authentication", "Method exists but access denied" }

SaysMethodExists ==
    { "Success: Method exists", "Method exists!",
      "Method exists but requires authentication", "Method exists but access denied" }

CallInputs ==
    { "pkg.Svc/Get", "pkg.Svc.Get", "pkg.Svc/Put", "pkg.Svc/List", "AuthService/GetById",
      "auth.AuthService.Login", "proto.UserService/Logout", "Health", "pkg.Svc/" }

\* lines 828-846
C_Parse ==
    /\ prog = "call" /\ pc = "parse"
    /\ LET c == parseCall(cfg.call) IN
          /\ loc' = c
          /\ pc' = IF c.ok THEN "dial" ELSE "failed"
    /\ NoRPC
    /\ UNCHANGED <<ctx, inputVars, idx, mi, resultVars, poolVars, reflected>>

\* line 852: grpc.DialContext
C_Dial ==
    /\ prog = "call" /\ pc = "dial"
    /\ \E err \in BOOLEAN : pc' = IF err THEN "failed" ELSE "invoke"
    /\ NoRPC
    /\ UNCHANGED <<ctx, inputVars, idx, mi, loc, resultVars, poolVars, reflected>>

\* lines 860-897: the Invoke and the printed line (kept in `results`)
C_Invoke ==
    /\ prog = "call" /\ pc = "invoke"
    /\ LET r    == Invoke(loc.service, loc.method)
           line == handleDirectCall(r)
       IN  /\ Observe("directCall", Main, loc.service, loc.method, r,
                      Verdict(line \in SaysServiceExists, line \in SaysMethodExists))
           /\ results' = <<line>>
    /\ pc' = "done"
    /\ UNCHANGED <<ctx, inputVars, idx, mi, loc, services, methods, reflectionEnabled, scanMode,
                   isGRPC, poolVars, reflected>>

CallNext == C_Parse \/ C_Dial \/ C_Invoke

-----------------------------------------------------------------------------

InitCommon ==
    /\ idx = 1
    /\ mi = 1
    /\ services = <<>>
    /\ methods = <<>>
    /\ reflectionEnabled = FALSE
    /\ scanMode = ""
    /\ isGRPC = {}
    /\ results = <<>>
    /\ sem = 0
    /\ mutex = {}
    /\ cands = <<>>
    /\ last = NoProbe
    /\ seen = {}
    /\ reflected = NoReflection
    /\ ctx = "live"

InitScanner ==
    /\ prog = "scanner"
    /\ srv \in Servers
    /\ cfg = NoConfig
    /\ pc = "dial"
    /\ loc = NoFound
    /\ wk = <<>>

InitDirect ==
    /\ prog = "direct"
    /\ srv \in Servers
    /\ cfg \in DirectInputs
    /\ pc = "dial"
    /\ loc = NoFound
    /\ wk = <<>>

InitLegacy ==
    /\ prog = "legacy"
    /\ srv \in Servers
    /\ cfg \in { LegacyConfig(std, NoFlags) : std \in LegacyStandard }
    /\ pc = "dial"
    /\ loc = NoFound
    /\ wk = <<>>

InitDetect ==
    /\ prog = "detect"
    /\ srv = Server("none", NilErr, "go", NoReflectionService)
    /\ cfg \in DetectConfigs
    /\ pc = "dispatch"
    /\ loc = NoCounters
    /\ wk = [i \in 1..Len(cfg.targets) |-> DetectWorker]

InitFuzz ==
    /\ prog = "fuzz"
    /\ srv = Server("none", NilErr, "go", NoReflectionService)
    /\ cfg \in FuzzInputs
    /\ pc = "fuzz"
    /\ loc = NoFound
    /\ wk = <<>>

InitCall ==
    /\ prog = "call"
    /\ srv \in Servers
    /\ cfg \in { [call |-> c] : c \in CallInputs }
    /\ pc = "parse"
    /\ loc = Call(FALSE, "", "")
    /\ wk = <<>>

Init ==
    /\ InitCommon
    /\ InitScanner \/ InitDirect \/ InitLegacy \/ InitDetect \/ InitFuzz \/ InitCall

\* the runs that end before the deadline of their context
Next == ScannerNext \/ LegacyNext \/ DetectNext \/ FuzzNext \/ CallNext

Spec == Init /\ [][Next]_vars

\* all runs: the deadline of the context may pass at any moment
NextDeadline == Next \/ Expire

SpecDeadline == Init /\ [][NextDeadline]_vars

\* the detector alone, every goroutine that can run being run in the end
DetectInit == InitCommon /\ InitDetect

SpecDetect ==
    /\ DetectInit
    /\ [][DetectNext]_vars
    /\ WF_vars(DetectNext)

\* a step of a dispatch loop or of one of its workers
PoolStep ==
    \/ S_Dispatch \/ S_Finish \/ L_Dispatch \/ L_Finish
    \/ \E i \in DOMAIN wk :
          \/ W_CheckService(i) \/ W_Lock(i) \/ W_AddService(i)
          \/ W_CheckMethod(i) \/ W_AddMethod(i) \/ W_Load(i) \/ W_Store(i)
          \/ W_Release(i) \/ W_Done(i)
          \/ LW_Focused(i) \/ LW_Specific(i) \/ LW_Lock(i) \/ LW_Update(i)
          \/ LW_Release(i) \/ LW_Done(i)

\* the scanners that probe candidates with a pool of workers
\* the servers the scans are run against when their pools are followed to
\* the end: a handler answer that confirms, one that tells of a missing
\* method and one that decides nothing, and a reflection stream that lists
\* services
PoolServers ==
    { Server(l, h, "go", NoReflectionService) :
          l \in {"app", "auth"},
          h \in { NilErr, St("Unimplemented", "method not implemented"),
                  St("NotFound", "") } }
    \cup
    { s \in Servers : s.refl.kind = "list" }

PoolInit ==
    /\ InitCommon
    /\ InitScanner \/ InitDirect \/ InitLegacy
    /\ srv \in PoolServers

PoolNext == ScannerNext \/ LegacyNext

\* these scanners, a dispatcher or worker that can run being run in the end
SpecPool == PoolInit /\ [][PoolNext]_vars /\ WF_vars(PoolStep)

-----------------------------------------------------------------------------
(* Properties.                                                             *)

NoDuplicates(s) == \A i, j \in DOMAIN s : i # j => s[i] # s[j]

Completed == pc = "done" /\ prog \in {"scanner", "direct", "legacy"}

\* the probes of the Method Oracle: service-existence and per-method checks
OracleSites == {"checkService", "checkMethod", "standard", "focused", "specific"}

\* the probes that decide whether a service is present
ServiceSites == {"checkService", "standard", "focused"}

Reflected == { reflected.names[i] : i \in DOMAIN reflected.names }

\* an answer that is neither UNIMPLEMENTED "unknown service" nor a transport failure
IsEvidence(r) == r.kind # "transport" /\ ~IsUnknownService(r)

Probed(s) == \E p \in seen : p.svc = s /\ IsEvidence(p.resp)

(* C1: at every moment of a scan, and so at its completion, `services`     *)
(* holds no service twice and no method list holds a method twice,         *)
(* whatever the order in which the workers, the standard checks and        *)
(* reflection report.                                                      *)
C1_NoDuplicates ==
    /\ NoDuplicates(services)
    /\ \A s \in DOMAIN methods : NoDuplicates(methods[s])

\* C1 witness: a completed two-thread wordlist scan in which two workers
\* probed the same service, both confirmed it and its two methods, and the
\* health service was reported by reflection as well as by probing
C1_Witness ==
    /\ prog = "scanner" /\ pc = "done" /\ scanMode = "wordlist"
    /\ cfg.threads = 2 /\ Len(cands) = 2 /\ cands[1].pats = cands[2].pats
    /\ contains(services, "pkg.Svc")
    /\ "pkg.Svc" \in DOMAIN methods /\ Len(methods["pkg.Svc"]) = 2
    /\ Health \in Reflected /\ contains(services, Health)

(* C2: in every reachable state every key of the methods map is a member   *)
(* of `services`: no method is recorded for a service that has not been    *)
(* inserted.                                                               *)
C2_ReferentialIntegrity ==
    \A s \in DOMAIN methods : contains(services, s)

\* C2 witness: a worker of the wordlist scan has recorded a method for the
\* service it found and still probes further methods
C2_Witness ==
    /\ prog = "scanner"
    /\ \E i \in DOMAIN wk :
          /\ wk[i].pc = "checkMeth"
          /\ cands[i].pats[wk[i].pi] \in DOMAIN methods
          /\ Len(methods[cands[i].pats[wk[i].pi]]) > 0

(* C3: at the completion of a scan, every oracle probe (the service check *)
(* with the first method as well as the per-method checks) that was        *)
(* answered with OK, INVALID_ARGUMENT, FAILED_PRECONDITION, OUT_OF_RANGE,  *)
(* UNAUTHENTICATED, PERMISSION_DENIED or INTERNAL has its service in       *)
(* `services` and its method in the service's method list.                 *)
C3_OracleMonotonicity ==
    Completed =>
        \A p \in seen :
            (p.site \in OracleSites /\ IsConfirming(p.resp)) =>
                /\ contains(services, p.svc)
                /\ p.svc \in DOMAIN methods
                /\ contains(methods[p.svc], p.m)

(* C4 as stated: every service in `services`, however it was added, has   *)
(* a probe against it whose answer is neither UNIMPLEMENTED "unknown       *)
(* service" nor a transport failure.                                       *)
C4_NoFalsePositives ==
    \A i \in DOMAIN services : Probed(services[i])

(* C4 amended: every service in `services` that the reflection list did    *)
(* not name has a probe against it whose answer is neither UNIMPLEMENTED   *)
(* "unknown service" nor a transport failure; the services of the          *)
(* reflection list are ingested without a probe.                           *)
C4_NoFalsePositivesByProbing ==
    \A i \in DOMAIN services :
        services[i] \notin Reflected => Probed(services[i])

\* C4 witness: a wordlist scan has added a service that reflection did not
\* name
C4_Witness ==
    /\ prog = "scanner" /\ scanMode = "wordlist"
    /\ \E i \in DOMAIN services :
          services[i] \notin Reflected /\ services[i] # Health

(* C5: at the completion of a scan reflection_enabled is true exactly when *)
(* the reflection stream returned a list-services response with at least   *)
(* one service.                                                            *)
C5_ReflectionTruthfulness ==
    Completed =>
        (reflectionEnabled <=> (reflected.kind = "list" /\ Len(reflected.names) > 0))

(* C6: every oracle probe answered with OK, INVALID_ARGUMENT,              *)
(* FAILED_PRECONDITION, OUT_OF_RANGE, UNAUTHENTICATED, PERMISSION_DENIED   *)
(* or INTERNAL is classified as confirmed: the service check reports the   *)
(* service, the method checks record the method.                           *)
C6_ConfirmingStatuses ==
    (last.kind = "probe" /\ last.site \in OracleSites /\ IsConfirming(last.resp)) =>
        IF last.site = "checkService" THEN "service" \in last.verdict
        ELSE "method" \in last.verdict

(* C7: a service check answered with UNIMPLEMENTED reports the service     *)
(* missing exactly when the message contains "unknown service" (in any     *)
(* letter case); every other UNIMPLEMENTED answer makes the service        *)
(* present and has it added.                                               *)
C7_UnimplementedBucket ==
    (last.kind = "probe" /\ last.site \in ServiceSites /\ IsUnimplemented(last.resp)) =>
        ("service" \in last.verdict <=> ~IsUnknownService(last.resp))

(* C8: a probe that ends with a transport error or with UNAVAILABLE        *)
(* leaves services, the methods map and reflection_enabled as they were,   *)
(* wherever it was issued, and an oracle probe that ends so entitles no    *)
(* addition to them.                                                       *)
C8_InconclusiveChangesNothing ==
    [][ (last'.kind = "probe" /\ IsInconclusive(last'.resp))
        => /\ result' = result
           /\ last'.site \in OracleSites => last'.verdict = {} ]_vars

\* C8 witness: after a service and a method were recorded, a method check
\* came back UNAVAILABLE or with a transport error
C8_Witness ==
    /\ last.kind = "probe" /\ last.site = "checkMethod"
    /\ IsInconclusive(last.resp)
    /\ contains(services, last.svc) /\ DOMAIN methods # {}

(* C9: a probe answered with an ambiguous status code (none of OK,         *)
(* UNIMPLEMENTED, UNAVAILABLE and the six confirming codes) adds no        *)
(* service, entitles no addition of a service, and does not make the scan  *)
(* fail; and every service that probing added was answered at least once   *)
(* with OK, a confirming code or UNIMPLEMENTED, never with ambiguous codes *)
(* alone.                                                                  *)
C9_AmbiguousNeverAdds ==
    /\ [](\A i \in DOMAIN services :
            services[i] \notin Reflected =>
                \E p \in seen : /\ p.svc = services[i]
                                /\ (IsConfirming(p.resp) \/ IsUnimplemented(p.resp)))
    /\ [][ (last'.kind = "probe" /\ IsAmbiguous(last'.resp))
            => (services' = services /\ "service" \notin last'.verdict
                   /\ pc' # "failed") ]_vars

\* C9 witness: a service check of a worker came back with an ambiguous code
C9_Witness ==
    /\ last.kind = "probe" /\ last.site \in {"checkService", "focused"}
    /\ last.tid # Main
    /\ IsAmbiguous(last.resp)

(* C10: the Health/Check transport probe classifies the peer as a gRPC     *)
(* service exactly when the answer carries a gRPC status, whatever the     *)
(* status code, in the single-target scan and in the detector.             *)
C10_AnyStatusIsGRPC ==
    (last.kind = "probe" /\ last.site \in {"detectServiceType", "checkGRPCService"}) =>
        ("grpc" \in last.verdict <=> HasStatus(last.resp))

-----------------------------------------------------------------------------
(* Scanner.Run: abort, discovery mode and completion.                      *)

(* C11: when the transport probe (detectServiceType) classifies the peer   *)
(* as not gRPC, Run returns its error at once: the step that records the   *)
(* verdict ends the scan, and from then on no reflection stream has been   *)
(* opened, no RPC other than the transport probe has been issued, and      *)
(* `services` and the methods map are empty.                               *)
C11_NotGRPCAborts ==
    /\ [](isGRPC = {FALSE} =>
             /\ pc = "failed"
             /\ services = <<>> /\ DOMAIN methods = {}
             /\ reflectionEnabled = FALSE /\ scanMode = ""
             /\ reflected = NoReflection
             /\ \A p \in seen : p.site = "detectServiceType"
             /\ \A i \in DOMAIN wk : wk[i].pc = "idle")
    /\ [][ (pc = "detect" /\ isGRPC' = {FALSE}) => pc' = "failed" ]_vars

\* C11 witness: the transport probe was answered by a peer that is not a
\* gRPC server (UNAVAILABLE, or an error without a status) and the scan
\* has ended
C11_Witness ==
    /\ prog = "scanner" /\ pc = "failed" /\ isGRPC = {FALSE}
    /\ \E p \in seen : p.site = "detectServiceType" /\ p.resp.kind = "transport"

(* C12: a completed scan that was given a wordlist reports the scan mode   *)
(* "wordlist", whatever reflection returned.                               *)
C12_WordlistMode ==
    (prog = "scanner" /\ pc = "done" /\ cfg.wordlist.given) => scanMode = "wordlist"

(* C13: a completed scan without a wordlist, whose reflection stream       *)
(* delivered a non-empty service list and in which probing added no        *)
(* service beyond the reflected ones, reports the scan mode "reflection".  *)
C13_ReflectionMode ==
    ( /\ prog = "scanner" /\ pc = "done"
      /\ reflected.kind = "list" /\ Len(reflected.names) > 0
      /\ ~cfg.wordlist.given
      /\ \A i \in DOMAIN services : services[i] \in Reflected )
        => scanMode = "reflection"

\* a server that answers every path with UNIMPLEMENTED "unknown service",
\* the reflection stream included
AnswersUnknownService(s) ==
    /\ s.layout = "none"
    /\ IsUnknownService(NoService(s.style, Health, "Check"))
    /\ s.refl.kind = "recvErr"

(* C14: a completed scan of a server that answers every path with          *)
(* UNIMPLEMENTED "unknown service" has no services, reflection_enabled     *)
(* false, and the scan mode "wordlist" if a wordlist was given and         *)
(* "bruteforce" otherwise.                                                 *)
C14_UnknownServiceEverywhere ==
    (prog = "scanner" /\ pc = "done" /\ AnswersUnknownService(srv)) =>
        /\ services = <<>> /\ DOMAIN methods = {}
        /\ reflectionEnabled = FALSE
        /\ scanMode = IF cfg.wordlist.given THEN "wordlist" ELSE "bruteforce"

\* C14 witness: such a scan has completed after its workers probed the
\* names of a wordlist
C14_Witness ==
    /\ prog = "scanner" /\ pc = "done" /\ AnswersUnknownService(srv)
    /\ cfg.wordlist.given /\ Len(cands) > 0
    /\ \E p \in seen : p.site = "checkService" /\ IsUnknownService(p.resp)
    /\ \A i \in DOMAIN wk : wk[i].pc = "gone"

-----------------------------------------------------------------------------
(* The wordlist scan.                                                      *)

\* the services a scan has probed or reported
Tried == { p.svc : p \in { q \in seen : q.site \in {"checkService", "checkMethod"} } }

(* C15: when a wordlist scan has completed, every global method of the     *)
(* wordlist has been probed on every service the scan probed or reported,  *)
(* and every registered service that answers a global method with a        *)
(* confirming status is in `services` with that method recorded.           *)
C15_GlobalMethodsEverywhere ==
    (prog = "scanner" /\ pc = "done" /\ scanMode = "wordlist") =>
        \A g \in SeqRange(cfg.wordlist.globalMethods) :
            /\ \A s \in Tried \cup SeqRange(services) :
                  \E p \in seen : p.svc = s /\ p.m = g
            /\ \A s \in Layout(srv).reg :
                  IsConfirming(Respond(srv, s, g)) =>
                      /\ contains(services, s)
                      /\ s \in DOMAIN methods /\ contains(methods[s], g)

-----------------------------------------------------------------------------
(* Version fuzzing.                                                        *)

HasVersion(p, n) == StrContains(p, VersionPattern(n))

(* C16: after a run of fuzzServiceVersions the output holds every input    *)
(* path; for every input path with a segment .vN., N in 1..maxVersion, it  *)
(* holds the path with that segment replaced by .vM. for every M in        *)
(* 1..maxVersion; and a list of paths without version segments comes out   *)
(* unchanged.                                                              *)
C16_VersionFuzzing ==
    (prog = "fuzz" /\ idx > 1) =>
        /\ \A i \in DOMAIN cands :
              /\ contains(results, cands[i])
              /\ \A n, m \in 1..cfg.maxVersion :
                    HasVersion(cands[i], n) =>
                        contains(results,
                                 ReplaceFirst(cands[i], VersionPattern(n), VersionPattern(m)))
        /\ (\A i \in DOMAIN cands : \A n \in 1..(MaxVersion + 1) : ~HasVersion(cands[i], n))
              => results = cands

(* C17: fuzzing the output of fuzzServiceVersions once more yields the     *)
(* same set of paths.                                                      *)
C17_FuzzIdempotence ==
    (prog = "fuzz" /\ idx = 3) => SeqRange(results) = SeqRange(cands)

-----------------------------------------------------------------------------
(* Pattern expansion of wordlist entries.                                  *)

(* C18: a completed wordlist scan with the entry                           *)
(* UserService:Login,Register,GetProfile against a server that implements  *)
(* proto.UserService with exactly these methods reports proto.UserService  *)
(* with the methods Login, Register and GetProfile and no other.           *)
C18_ProtoUserService ==
    ( /\ prog = "scanner" /\ pc = "done" /\ scanMode = "wordlist"
      /\ srv.layout = "proto"
      /\ cfg.wordlist.entries
            = <<Entry("UserService", <<"Login", "Register", "GetProfile">>)>> )
        => /\ contains(services, "proto.UserService")
           /\ "proto.UserService" \in DOMAIN methods
           /\ SeqRange(methods["proto.UserService"]) = {"Login", "Register", "GetProfile"}

(* C19: a scan that was given a wordlist file which cannot be opened or    *)
(* read never completes successfully.                                      *)
C19_UnreadableWordlistFails ==
    (prog = "scanner" /\ cfg.wordlist.given /\ ~cfg.wordlist.readable) => pc # "done"

-----------------------------------------------------------------------------
(* The two forms of direct testing.                                        *)

(* C20: for every answer to the probe of Service/Method, what the -call    *)
(* form prints about the service and about the method agrees with what     *)
(* the -service/-method form concludes through checkService and            *)
(* checkMethod.                                                            *)
C20_SameOracle ==
    (prog = "call" /\ last.kind = "probe" /\ last.site = "directCall") =>
        /\ "service" \in last.verdict <=> checkService(last.resp)
        /\ "method" \in last.verdict <=> checkMethod(last.resp)

-----------------------------------------------------------------------------
(* Output of the scan.                                                     *)

(* C21: when a scan has been aborted after it started, the services and    *)
(* methods aggregated so far have been written to the output.              *)
C21_PartialResultsEmitted ==
    (prog = "scanner" /\ pc = "failed" /\ (services # <<>> \/ DOMAIN methods # {})) =>
        \E i \in DOMAIN results :
            /\ results[i].AvailableServices = services
            /\ results[i].MethodsFound = methods

-----------------------------------------------------------------------------
(* The scanners' note on service existence.                                *)

\* an error that explicitly states that the service does not exist, in the
\* widest reading the scanners use
SaysServiceMissing(r) ==
    /\ r.kind = "status" /\ r.code \in {"Unimplemented", "NotFound"}
    /\ LET errMsg == ToLower(r.msg) IN
          /\ StrContains(errMsg, "service")
          /\ \/ StrContains(errMsg, "not found")
             \/ StrContains(errMsg, "does not exist")
             \/ StrContains(errMsg, "doesn't exist")
             \/ StrContains(errMsg, "unknown")

(* C22: at the completion of a scan, every service for which a service     *)
(* probe returned an error status that does not state that the service is  *)
(* missing (an "unknown method" UNIMPLEMENTED or any other status code     *)
(* included) is in `services`.                                             *)
C22_ExistsUnlessStatedMissing ==
    Completed =>
        \A p \in seen :
            ( /\ p.site \in {"checkService", "focused"}
              /\ p.resp.kind = "status"
              /\ ~SaysServiceMissing(p.resp) )
                => contains(services, p.svc)

-----------------------------------------------------------------------------
(* Candidates of the wordlist scan.                                        *)

WordlistScan == prog = "scanner" /\ scanMode = "wordlist" /\ pc \in {"dispatch", "done", "output"}

\* the names the spec lists for a wordlist entry
ExpectedPatterns(name) ==
    IF ~Occurs(name, ".") /\ ~HasSuffix(name, "Service")
    THEN << name,
            name \o "Service",
            LowerOf(name) \o "." \o name \o "Service",
            "api." \o name,
            LowerOf(name) \o ".v1." \o name \o "Service" >>
    ELSE << name >>

(* C23: in a wordlist scan the names tried for an entry are the raw name   *)
(* and, if the name has no dot and does not end in "Service", exactly the  *)
(* four variants NameService, lower(Name).NameService, api.Name and        *)
(* lower(Name).v1.NameService; a worker probes no other name.              *)
C23_PatternExpansion ==
    WordlistScan =>
        /\ Len(cands) = Len(cfg.wordlist.entries)
        /\ \A i \in DOMAIN cands :
              cands[i].pats = ExpectedPatterns(cfg.wordlist.entries[i].Service)
        /\ (last.kind = "probe" /\ last.tid # Main) =>
              \E k \in DOMAIN ExpectedPatterns(cfg.wordlist.entries[last.tid].Service) :
                  last.svc = ExpectedPatterns(cfg.wordlist.entries[last.tid].Service)[k]

\* C23 witness: a worker has just probed the last of the five names of the
\* entry Auth, while the entry AuthService is tried under its raw name only
C23_Witness ==
    /\ WordlistScan
    /\ \E i, j \in DOMAIN cands :
          /\ cfg.wordlist.entries[i].Service = "Auth" /\ Len(cands[i].pats) = 5
          /\ cfg.wordlist.entries[j].Service = "AuthService" /\ Len(cands[j].pats) = 1
          /\ last.kind = "probe" /\ last.tid = i /\ last.svc = "auth.v1.AuthService"

-----------------------------------------------------------------------------
(* Default methods of the wordlist scan.                                   *)

\* the list the spec describes: the built-in methods, then the global ones,
\* duplicates removed, first occurrence kept
ExpectedDefaults(globalMethods) ==
    uniqueStrings(Take(defaultMethods, MaxDefaultMethods) \o globalMethods)

(* C24: a wordlist entry without methods of its own is probed with the     *)
(* built-in default methods followed by the wordlist's global methods,     *)
(* without duplicates and in order of first occurrence, so the list and    *)
(* its first element are the same on every run of the same wordlist.       *)
C24_DefaultMethodOrder ==
    WordlistScan =>
        \A i \in DOMAIN cands :
            Len(cfg.wordlist.entries[i].Methods) = 0 =>
                cands[i].meths = ExpectedDefaults(cfg.wordlist.globalMethods)

-----------------------------------------------------------------------------
(* The detector's verdict per target.                                      *)

\* the probe of target t obtained a gRPC status or succeeded
ObtainedStatus(t) ==
    /\ t.dial = "ok" /\ t.state \notin {"TRANSIENT_FAILURE", "SHUTDOWN"}
    /\ t.resp.kind \in {"nil", "status"}

(* C25: for every target the detector has checked, is_grpc is true exactly *)
(* when the probe obtained a gRPC status or succeeded, and then error is   *)
(* empty; a failed connection, a failed channel or an answer without a     *)
(* gRPC status gives is_grpc false and a non-empty error; the latency is   *)
(* recorded in every outcome.                                              *)
C25_DetectVerdict ==
    prog = "detect" =>
        \A k \in DOMAIN results :
            LET r == results[k]
                t == cfg.targets[r.target]
            IN  /\ r.IsGRPC = ObtainedStatus(t)
                /\ r.IsGRPC => r.Error = ""
                /\ ~ObtainedStatus(t) => (~r.IsGRPC /\ r.Error # "")
                /\ r.Latency # {}

\* C25 witness: the detector has finished two targets, one answering with a
\* gRPC status and one whose channel is in a failed state
C25_Witness ==
    /\ prog = "detect" /\ pc = "done"
    /\ \E j, k \in DOMAIN results :
          /\ results[j].IsGRPC /\ results[j].Error = "" /\ results[j].Latency # {}
          /\ cfg.targets[results[j].target].resp.kind = "status"
          /\ ~results[k].IsGRPC /\ results[k].Error # "" /\ results[k].Latency # {}
          /\ cfg.targets[results[k].target].dial = "ok"
          /\ cfg.targets[results[k].target].state = "TRANSIENT_FAILURE"

-----------------------------------------------------------------------------
(* From the reflection probe to candidate probing.                         *)

(* C26: a scan that went past the reflection probe and completed has       *)
(* driven the candidate stream through the oracle, the wordlist entries    *)
(* when a wordlist is supplied and the generated patterns otherwise,       *)
(* whether reflection failed, returned one service or returned many.       *)
C26_AlwaysProbesCandidates ==
    (prog = "scanner" /\ pc \in {"done", "output"}) =>
        /\ scanMode = (IF cfg.wordlist.given THEN "wordlist" ELSE "bruteforce")
        /\ \A i \in DOMAIN cands : wk[i].pc = "gone"

-----------------------------------------------------------------------------
(* Completion of candidate probing.                                        *)

\* the scan function has returned
Returned == prog \in {"scanner", "legacy"} /\ pc \in {"done", "output"}

(* C27: candidate probing is complete only when every candidate has been   *)
(* dispatched and every worker has finished: once the scan function has    *)
(* returned no worker is running, and the services and methods of the      *)
(* result never change again.                                              *)
C27_CompleteMeansQuiescent ==
    /\ [](Returned =>
            /\ idx > Len(cands)
            /\ \A i \in DOMAIN wk : wk[i].pc = "gone"
            /\ sem = 0 /\ mutex = {})
    /\ [][Returned => (services' = services /\ methods' = methods)]_vars

\* C27 witness: a wordlist scan has returned after two workers ran, one of
\* which added the service it probed
C27_Witness ==
    /\ prog = "scanner" /\ pc = "done" /\ scanMode = "wordlist"
    /\ Len(cands) = 2
    /\ \A i \in DOMAIN wk : wk[i].pc = "gone"
    /\ \E i \in DOMAIN wk :
          /\ contains(services, cands[i].pats[wk[i].pi])
          /\ cands[i].pats[wk[i].pi] \in DOMAIN methods

-----------------------------------------------------------------------------
(* The worker pool.                                                        *)

\* wordlist probing, pattern bruteforce or multi-target detection is going on
Pooling == prog \in {"scanner", "legacy", "detect"} /\ pc = "dispatch"

\* the threads parameter of the running program
Threads == IF prog = "legacy" THEN cfg.flags.threads ELSE cfg.threads

\* the worker goroutines that were started and have not returned: the ones
\* wg.Wait() waits for
InFlight == { i \in DOMAIN wk : wk[i].pc \notin {"idle", "gone"} }

\* the workers that hold a slot of the pool: started, and the deferred
\* <-semaphore not yet run
SlotHolders == { i \in DOMAIN wk : wk[i].pc \notin {"idle", "signal", "gone"} }

(* C28 (as amended): during wordlist probing, pattern bruteforce and       *)
(* multi-target detection at most `threads` workers hold a slot of the     *)
(* pool, and while `threads` slots are held no step starts another worker; *)
(* a worker that gave its slot back and has only wg.Done() left does not   *)
(* count.                                                                  *)
C28_BoundedPool ==
    /\ [](Pooling => Cardinality(SlotHolders) <= Threads)
    /\ [][(Pooling /\ Cardinality(SlotHolders) >= Threads) =>
              \A i \in DOMAIN wk : wk[i].pc = "idle" => wk'[i].pc = "idle"]_vars

(* C28 (as stated): during wordlist probing, pattern bruteforce and        *)
(* multi-target detection the number of workers in flight, the started     *)
(* workers that have not returned, is at most `threads` at every moment.   *)
C28_InFlightBounded ==
    Pooling => Cardinality(InFlight) <= Threads

\* C28 witness: a one-thread scan whose only slot is held by a worker while
\* the worker before it has given the slot back and not yet called wg.Done()
C28_Witness ==
    /\ prog = "scanner" /\ pc = "dispatch"
    /\ cfg.threads = 1 /\ Cardinality(SlotHolders) = 1
    /\ \E i \in DOMAIN wk : wk[i].pc = "signal"

-----------------------------------------------------------------------------
(* The progress counters.                                                  *)

\* every worker of a counting pool has finished
Counted ==
    \/ prog = "scanner" /\ scanMode = "wordlist" /\ pc \in {"done", "output"}
    \/ prog = "detect" /\ pc = "done"

\* the workers that reported a find
Finders ==
    { i \in DOMAIN wk : IF prog = "detect" THEN wk[i].result.IsGRPC ELSE wk[i].sf }

(* C29: the progress counters are incremented atomically, so no increment  *)
(* is lost under any interleaving: when all workers have finished, the     *)
(* processed counter equals the number of candidates or targets handled    *)
(* and the found counter equals the number of workers that reported a find.*)
C29_NoLostIncrement ==
    Counted =>
        IF prog = "detect"
        THEN /\ loc.processed = Len(cfg.targets)
             /\ loc.found = Cardinality(Finders)
        ELSE /\ loc.checked = Len(cands)
             /\ loc.found = Cardinality(Finders)

-----------------------------------------------------------------------------
(* The mutex of the ScanResult.                                            *)

\* the workers inside a read-modify-write of the result
Updating == { i \in DOMAIN wk : wk[i].pc \in {"addSvc", "addMeth", "update"} }

\* the step changes the services or the methods of the result
Mutates == services' # services \/ methods' # methods

\* nothing that was in the result is missing after the step
NothingLost ==
    /\ \A k \in DOMAIN services : contains(services', services[k])
    /\ \A s \in DOMAIN methods :
          /\ s \in DOMAIN methods'
          /\ \A k \in DOMAIN methods[s] : contains(methods'[s], methods[s][k])

\* updates exclude each other: a worker is inside an update only as the
\* holder of the mutex, and every update made while workers are in flight
\* is a step of the holder, which loses nothing and releases the mutex
MutexGuardsResult ==
    /\ [](prog \in {"scanner", "legacy"} =>
            /\ Cardinality(mutex) <= 1
            /\ Updating = mutex)
    /\ [][(prog \in {"scanner", "legacy"} /\ InFlight # {} /\ Mutates) =>
              \E i \in InFlight :
                  /\ mutex = {i} /\ wk[i].pc \in {"addSvc", "addMeth", "update"}
                  /\ wk'[i].pc # wk[i].pc /\ mutex' = {}
                  /\ NothingLost]_vars

(* C30: the ScanResult is guarded by one mutex and mutated                 *)
(* only by the orchestrator, never by a worker; every read-modify-write    *)
(* made while workers may be running holds the mutex, so no two updates    *)
(* overlap and no update is lost.                                          *)
C30_OnlyOrchestratorMutates ==
    /\ MutexGuardsResult
    /\ [][(prog \in {"scanner", "legacy"} /\ Mutates) => wk' = wk]_vars

-----------------------------------------------------------------------------
(* Order of the result lists.                                              *)

\* s is an initial part of t
IsPrefix(s, t) == Len(s) <= Len(t) /\ \A k \in DOMAIN s : t[k] = s[k]

\* the service a scanner worker is about to report, and its current method
Reported(i) == cands[i].pats[wk[i].pi]

ReportedMethod(i) == cands[i].meths[wk[i].mi]

(* C31: services and every methods list only grow by appending at the end: *)
(* an element already present keeps its position and never disappears,     *)
(* and a later report of a service or method that is already present       *)
(* leaves the list unchanged.                                              *)
C31_AppendOnly ==
    [][ /\ IsPrefix(services, services')
        /\ \A s \in DOMAIN methods :
              s \in DOMAIN methods' /\ IsPrefix(methods[s], methods'[s])
        /\ \A i \in DOMAIN wk :
              /\ (prog = "scanner" /\ wk[i].pc = "addSvc" /\ wk'[i].pc # "addSvc"
                    /\ contains(services, Reported(i))) => services' = services
              /\ (prog = "scanner" /\ wk[i].pc = "addMeth" /\ wk'[i].pc # "addMeth"
                    /\ Reported(i) \in DOMAIN methods
                    /\ contains(methods[Reported(i)], ReportedMethod(i))) =>
                        methods' = methods ]_vars

\* C31 witness: two workers have reported the same service and the same two
\* methods; the service stands once, behind the health service, with its
\* methods in the order of their first report
C31_Witness ==
    /\ prog = "scanner" /\ pc = "done" /\ Len(cands) = 2
    /\ wk[1].sf /\ wk[2].sf /\ Reported(1) = Reported(2)
    /\ services = <<Health, Reported(1)>>
    /\ Reported(1) \in DOMAIN methods
    /\ Len(methods[Reported(1)]) = 2
    /\ cands[1].meths # cands[2].meths

-----------------------------------------------------------------------------
(* Order of probing and recording.                                         *)

\* the sites that probe further methods of a service found to exist
AdditionalMethodSites == {"checkMethod", "specific"}

(* C32: a method of a service beyond the probe for the existence of the    *)
(* service is probed only after the service has been added to the result:  *)
(* no such probe for svc is issued while svc is not in services.           *)
C32_MethodsAfterService ==
    (last.kind = "probe" /\ last.site \in AdditionalMethodSites) =>
        contains(services, last.svc)

-----------------------------------------------------------------------------
(* The deadline of the scan context.                                       *)

(* C33: once the context of the scan is cancelled or its deadline has      *)
(* passed, the dispatcher starts no further candidate, and the scan        *)
(* function returns only after the workers in flight have returned.        *)
C33_CancelStopsDispatch ==
    /\ [][(prog \in {"scanner", "legacy"} /\ pc = "dispatch" /\ ctx = "expired") =>
              \A i \in DOMAIN wk : wk[i].pc = "idle" => wk'[i].pc = "idle"]_vars
    /\ [](Returned => \A i \in DOMAIN wk : wk[i].pc \in {"idle", "gone"})

(* C34: every call has a deadline of its own, independent of the connect   *)
(* deadline: the time used by connecting, by the reflection probe or by    *)
(* earlier probes never makes a later probe start with an expired          *)
(* deadline, so every probe is answered by the server.                     *)
C34_PerCallDeadline ==
    (prog \in {"scanner", "direct", "legacy"} /\ last.kind = "probe") =>
        last.resp = Respond(srv, last.svc, last.m)

-----------------------------------------------------------------------------
(* The pattern loop of a wordlist worker.                                  *)

\* worker i takes a step
Steps(i) == wk'[i] # wk[i]

(* C35: the variants of a wordlist entry are probed in their fixed order   *)
(* and probing stops at the first variant that confirms a service: no      *)
(* variant after the confirming one is probed, and at most one variant of  *)
(* the entry is added to services.                                         *)
C35_FirstVariantWins ==
    [][(prog = "scanner" /\ scanMode = "wordlist" /\ pc = "dispatch") =>
          \A i \in DOMAIN wk :
              \* the variants are taken one after the other, each after a miss
              /\ wk'[i].pi \in {wk[i].pi, wk[i].pi + 1}
              /\ wk'[i].pi = wk[i].pi + 1 =>
                    /\ last'.kind = "probe" /\ last'.site = "checkService"
                    /\ last'.tid = i /\ last'.svc = cands[i].pats[wk[i].pi]
                    /\ "service" \notin last'.verdict
              \* after a find no variant is probed
              /\ wk[i].sf => (wk'[i].pi = wk[i].pi /\ wk'[i].pc # "checkSvc" /\ wk'[i].sf)
              \* the worker adds the confirming variant and nothing else
              /\ (Steps(i) /\ services' # services) =>
                    /\ wk[i].sf
                    /\ services' = Append(services, cands[i].pats[wk[i].pi]) ]_vars

\* C35 witness: the worker of the entry Auth found its second variant after
\* a miss on the first, added it and finished without probing the others
C35_Witness ==
    /\ prog = "scanner" /\ scanMode = "wordlist" /\ pc = "done"
    /\ \E i \in DOMAIN wk :
          /\ cfg.wordlist.entries[i].Service = "Auth"
          /\ wk[i].pc = "gone" /\ wk[i].sf /\ wk[i].pi = 2
          /\ contains(services, "AuthService")
          /\ \A k \in {1, 3, 4, 5} : ~contains(services, cands[i].pats[k])
          /\ [site |-> "checkService", svc |-> "Auth", m |-> cands[i].meths[1],
              resp |-> Respond(srv, "Auth", cands[i].meths[1])] \in seen
          /\ \A p \in seen : p.svc # cands[i].pats[3]

-----------------------------------------------------------------------------
(* Duplicates in the candidate stream.                                     *)

\* the service paths dispatched for candidate i
Dispatched(i) ==
    IF prog = "scanner" THEN SeqRange(cands[i].pats) ELSE {cands[i]}

(* C36: no ServicePath is dispatched to the workers more than once in a    *)
(* scan: repeated wordlist entries and overlapping pattern or version      *)
(* expansions are removed before emission, the first occurrence being the  *)
(* one kept together with its method list.                                 *)
C36_NoDuplicateCandidates ==
    /\ (prog \in {"scanner", "legacy"} /\ pc = "dispatch") =>
          \A i, j \in DOMAIN cands : i # j => Dispatched(i) \cap Dispatched(j) = {}
    /\ (prog = "fuzz" /\ idx > 1) => NoDuplicates(results)

-----------------------------------------------------------------------------
(* Waiting for the channel.                                                *)

\* the scan is waiting for its channel
Connecting == prog \in {"scanner", "legacy"} /\ pc = "wait"

(* C37: the scan goes from connecting to the transport probe only if the   *)
(* channel was seen READY or IDLE within the channel-ready timeout; if the *)
(* channel is seen in TRANSIENT_FAILURE or SHUTDOWN, or the timeout passes *)
(* first, the scan is aborted and no probe is issued; the loop goes round  *)
(* again only after a change of state reported within the timeout.         *)
C37_ReadyOrAborted ==
    [][Connecting =>
          /\ pc' # "wait" =>
                /\ last'.kind = "state"
                /\ IF last'.state \in {"READY", "IDLE"}
                   THEN pc' # "failed"
                   ELSE pc' = "failed" /\ seen' = {}
          /\ (pc' = "wait" /\ last'.kind = "state") =>
                (last'.state = "CONNECTING" /\ last'.changed) ]_vars

-----------------------------------------------------------------------------
(* The results of the detector.                                            *)

\* the places of target i in the results
ResultsOf(i) == { k \in DOMAIN results : results[k].target = i }

(* C38: for any list of targets and any number of threads from 1 on,       *)
(* detectGRPCServices terminates and returns exactly one DetectResult per  *)
(* input target: no worker ever waits to send its result, and no result    *)
(* is dropped or duplicated, whatever the interleaving.                    *)
C38_OneResultPerTarget ==
    /\ <>(pc = "done")
    /\ [](pc = "done" =>
            /\ Len(results) = Len(cfg.targets)
            /\ \A i \in DOMAIN cfg.targets : Cardinality(ResultsOf(i)) = 1)
    /\ [](\A i \in DOMAIN wk : wk[i].pc = "check" => Len(results) < resultsChanCap)
    /\ [](\A i \in DOMAIN wk : Cardinality(ResultsOf(i)) <= 1)

\* C38 witness: two equal targets checked by two threads, the result of the
\* second target sent first
C38_Witness ==
    /\ prog = "detect" /\ pc = "done" /\ cfg.threads = 2
    /\ Len(cfg.targets) = 2 /\ cfg.targets[1] = cfg.targets[2]
    /\ Len(results) = 2 /\ results[1].target = 2 /\ results[2].target = 1

-----------------------------------------------------------------------------
(* The dispatcher and its workers.                                         *)

\* the dispatch loop of a scan is running or waiting for its workers
Dispatching == prog \in {"scanner", "legacy"} /\ pc = "dispatch"

(* C39: with one thread or more and every probe returning, the dispatcher  *)
(* and its workers never deadlock: once dispatching has begun the wait     *)
(* returns, every candidate has then been processed, every semaphore slot  *)
(* is free and the result mutex is unlocked; meanwhile the slots taken are *)
(* those of the running workers and the mutex is held by a worker that is  *)
(* inside a result update.                                                 *)
C39_PoolTerminates ==
    /\ Dispatching ~> (pc = "done")
    /\ [][(Dispatching /\ pc' = "done") =>
            /\ \A i \in 1..Len(cands) : wk'[i].pc = "gone"
            /\ sem' = 0 /\ mutex' = {}]_vars
    /\ [](Dispatching =>
            /\ sem = Cardinality(SlotHolders)
            /\ \A i \in mutex : wk[i].pc \in {"addSvc", "addMeth", "update"})

\* C39 witness: a one-thread scan of two candidates has returned, so the
\* second worker was started with the slot the first one gave back
C39_Witness ==
    /\ prog \in {"scanner", "legacy"} /\ pc = "done" /\ Threads = 1
    /\ Len(cands) >= 2 /\ idx > Len(cands)
    /\ \A i \in DOMAIN wk : wk[i].pc = "gone"
    /\ sem = 0 /\ mutex = {}

-----------------------------------------------------------------------------
(* What a scan finds, whatever the scheduling.                             *)

\* the candidates are probed by the workers of a scan whose wordlist has no
\* global methods
FixedCandidates ==
    /\ prog = "scanner" /\ scanMode = "wordlist"
    /\ cfg.wordlist.given /\ Len(cfg.wordlist.globalMethods) = 0

\* the variants of candidate c that the server confirms on the first method
ConfirmedVariants(c) ==
    IF Len(c.meths) = 0 THEN {}
    ELSE { k \in 1..Len(c.pats) : checkService(Respond(srv, c.pats[k], c.meths[1])) }

\* the services the candidates yield when each is probed alone
ExpectedServices ==
    { cands[i].pats[CHOOSE k \in ConfirmedVariants(cands[i]) :
                        \A j \in ConfirmedVariants(cands[i]) : k <= j] :
          i \in { i \in 1..Len(cands) : ConfirmedVariants(cands[i]) # {} } }

\* the methods of service s the candidates yield when each is probed alone
ExpectedMethods(s) ==
    UNION { { cands[i].meths[j] :
                 j \in { j \in 1..Len(cands[i].meths) :
                            checkMethod(Respond(srv, s, cands[i].meths[j])) } } :
            i \in { i \in 1..Len(cands) :
                       /\ ConfirmedVariants(cands[i]) # {}
                       /\ cands[i].pats[CHOOSE k \in ConfirmedVariants(cands[i]) :
                              \A j \in ConfirmedVariants(cands[i]) : k <= j] = s } }

MethodSet(mths, s) == IF s \in DOMAIN mths THEN SeqRange(mths[s]) ELSE {}

\* the variant of candidate i that is added when the candidate is probed alone
\* is s
Yields(i, s) ==
    /\ ConfirmedVariants(cands[i]) # {}
    /\ cands[i].pats[CHOOSE k \in ConfirmedVariants(cands[i]) :
                         \A j \in ConfirmedVariants(cands[i]) : k <= j] = s

\* the methods of s that the candidates from the i-th on confirm, in the
\* order of the candidates and of the method list of each
RECURSIVE MethodsInOrder(_, _)
MethodsInOrder(s, i) ==
    IF i > Len(cands) THEN <<>>
    ELSE (IF Yields(i, s)
          THEN SelectSeq(cands[i].meths, LAMBDA m : checkMethod(Respond(srv, s, m)))
          ELSE <<>>) \o MethodsInOrder(s, i + 1)

\* the list of methods of s that the run with one worker at a time records
ExpectedMethodList(s) == uniqueStrings(MethodsInOrder(s, 1))

\* the sets of services and of methods per service do not depend on the run:
\* a step adds only what the candidates yield when probed alone and takes
\* nothing away, and when the scan returns all of it is in the result
FinalSetsFixed ==
    /\ [][(FixedCandidates /\ pc = "dispatch") =>
            /\ SeqRange(services) \subseteq SeqRange(services')
            /\ SeqRange(services') \subseteq SeqRange(services) \cup ExpectedServices
            /\ \A s \in DOMAIN methods' :
                  /\ MethodSet(methods, s) \subseteq MethodSet(methods', s)
                  /\ MethodSet(methods', s)
                        \subseteq MethodSet(methods, s) \cup ExpectedMethods(s)]_vars
    /\ [][(FixedCandidates /\ pc = "dispatch" /\ pc' = "done") =>
            /\ ExpectedServices \subseteq SeqRange(services)
            /\ \A s \in ExpectedServices :
                  ExpectedMethods(s) \subseteq MethodSet(methods, s)]_vars

\* the services that only the workers probe: the main goroutine tries the
\* health service and the standard patterns before it dispatches
WorkerOnly(s) ==
    s # Health /\ ~contains(patternServices(StandardPatterns), s)

\* nothing but the order of services differs between the runs: when the scan
\* returns, the methods of each service that only the workers probe are in
\* the order in which the run with one worker at a time records them
MethodOrderFixed ==
    [][(FixedCandidates /\ pc = "dispatch" /\ pc' = "done") =>
            \A s \in ExpectedServices :
                (WorkerOnly(s) /\ s \in DOMAIN methods) =>
                    methods[s] = ExpectedMethodList(s)]_vars

(* C40: for a server that answers each path in one way and a wordlist      *)
(* without global methods, the final set of services and the final set of  *)
(* confirmed methods of each service are the same for every number of      *)
(* threads and every interleaving of the workers, and only the insertion   *)
(* order of services may differ between the runs.                          *)
C40_SchedulingIndependent == FinalSetsFixed /\ MethodOrderFixed

=============================================================================
